---------------------------- MODULE Spec2Model ----------------------------
(***************************************************************************)
(* Welded plate girder: section classification, the capacity check suite,  *)
(* the design_check orchestrator and the optimizer's rounding, modelled    *)
(* from design_checks.py and weldedPlateGirder.py; and the bolt layout of  *)
(* the bolted lap joint, from lap_joint_bolted.py (SpecLap).               *)
(*                                                                         *)
(* Numbers.  The program computes in floating point.  The model computes   *)
(* in exact rationals [n, d] (d > 0, lowest terms); [n |-> 1, d |-> 0] is  *)
(* float('inf').  sqrt(3) is taken as 7/4.  A division by zero raises      *)
(* ZeroDivisionError in the program and sets "raised" in the model.        *)
(*                                                                         *)
(* Calls.  The program names the receiver twice in some calls              *)
(* (self.f(self, a, b)) and once in others (self.f(a, b)).  The model      *)
(* reads both forms as f applied to the object with the arguments a, b     *)
(* delivered to f's parameters in order; a call whose argument count does  *)
(* not fit the parameters raises TypeError.                                *)
(***************************************************************************)
EXTENDS Integers, Sequences, FiniteSets, TLC

VARIABLES
    self,   \* the fields of the PlateGirderWelded object (of LapJointBolted in SpecLap)
    ext,    \* what the section-property / IS800 library returns for self's geometry
    call,   \* the operation that last completed: its name, return value, raised flag
    pc      \* position of the program

vars == <<self, ext, call, pc>>

-----------------------------------------------------------------------------
(* Rational arithmetic standing for Python float arithmetic.               *)

Abs(x) == IF x < 0 THEN -x ELSE x

RECURSIVE GCD(_, _)
GCD(a, b) == IF b = 0 THEN a ELSE GCD(b, a % b)

\* n/d in lowest terms with a positive denominator; d = 0 yields +inf
R(n, d) ==
    IF d = 0 THEN [n |-> 1, d |-> 0]
    ELSE LET g == GCD(Abs(n), Abs(d))
             s == IF d < 0 THEN -1 ELSE 1
         IN  [n |-> s * (n \div g), d |-> s * (d \div g)]

I(k) == [n |-> k, d |-> 1]
Inf == [n |-> 1, d |-> 0]
\* Python's None, the string 'NA', and a string float() cannot parse, in a
\* field that otherwise holds a number
NoneR == [n |-> 0, d |-> -1]
NA == [n |-> 0, d |-> -2]
Unparseable == [n |-> 0, d |-> -3]
IsNumber(a) == a.d >= 0

\* the operations cancel common factors before they multiply, which keeps
\* the intermediate integers small
RAdd(a, b) ==
    IF a.d = 0 THEN a ELSE IF b.d = 0 THEN b
    ELSE LET g == GCD(a.d, b.d)
         IN  R(a.n * (b.d \div g) + b.n * (a.d \div g), (a.d \div g) * b.d)
RNeg(a) == [n |-> -a.n, d |-> a.d]
RSub(a, b) == RAdd(a, RNeg(b))
RMul(a, b) ==
    IF a.d = 0 \/ b.d = 0 THEN Inf
    ELSE LET g1 == GCD(Abs(a.n), b.d)
             g2 == GCD(Abs(b.n), a.d)
         IN  R((a.n \div g1) * (b.n \div g2), (a.d \div g2) * (b.d \div g1))
\* the caller has tested b /= 0 (the program raises otherwise)
RDiv(a, b) ==
    IF a.d = 0 THEN a
    ELSE IF b.d = 0 THEN I(0)
    ELSE RMul(a, IF b.n < 0 THEN [n |-> -b.d, d |-> -b.n] ELSE [n |-> b.d, d |-> b.n])
\* an/ad < bn/bd for ad, bd > 0, by whole parts and then the inverted
\* remainders, so that no product is formed
RECURSIVE FracLt(_, _, _, _)
FracLt(an, ad, bn, bd) ==
    LET qa == an \div ad
        qb == bn \div bd
        ra == an - qa * ad
        rb == bn - qb * bd
    IN  IF qa # qb THEN qa < qb
        ELSE IF rb = 0 THEN FALSE
        ELSE IF ra = 0 THEN TRUE
        ELSE FracLt(bd, rb, ad, ra)
RLt(a, b) ==
    IF a.d = 0 THEN FALSE ELSE IF b.d = 0 THEN TRUE
    ELSE FracLt(a.n, a.d, b.n, b.d)
RLe(a, b) == ~RLt(b, a)
RIsZero(a) == a.n = 0 /\ a.d > 0
\* Python's max(a, b) and min(a, b): the first argument wins a tie
RMax(a, b) == IF RLt(a, b) THEN b ELSE a
RMin(a, b) == IF RLt(b, a) THEN b ELSE a
RSq(a) == RMul(a, a)

\* round(x, 2): to the nearest hundredth, ties to even
Round2(a) ==
    IF a.d = 0 THEN a
    ELSE LET whole == a.n \div a.d               \* floor
             rem   == a.n - whole * a.d         \* 0 <= rem < a.d
             q     == (100 * rem) \div a.d
             r2    == 2 * (100 * rem - q * a.d)
             up    == r2 > a.d \/ (r2 = a.d /\ q % 2 = 1)
         IN  RAdd(I(whole), R(IF up THEN q + 1 ELSE q, 100))

-----------------------------------------------------------------------------
(* Section classes (Common.py keys) and the failing sentinel.              *)

KEY_Plastic == "Plastic"
KEY_Compact == "Compact"
KEY_SemiCompact == "Semi-Compact"
Slender == "Slender"
Classes == {KEY_Plastic, KEY_Compact, KEY_SemiCompact, Slender}

ThickWeb == "Thick Web without ITS"
ThinWeb == "Thin Web with ITS"

\* "2.0 # Fail"
FailRatio == I(2)
KEY_DISP_UDL_PIN_PIN_PG == "UDL_PIN_PIN"
KEY_DISP_UDL_FIX_FIX_PG == "UDL_FIX_FIX"
KEY_DISP_PL_PIN_PIN_PG == "PL_PIN_PIN"
KEY_DISP_PL_FIX_FIX_PG == "PL_FIX_FIX"
LoadingCases == {KEY_DISP_UDL_PIN_PIN_PG, KEY_DISP_UDL_FIX_FIX_PG, KEY_DISP_PL_PIN_PIN_PG, KEY_DISP_PL_FIX_FIX_PG}
WarpingNotRestrained == "Warping not restrained in both flanges"
WarpingRestraints == {"Both flanges fully restrained", "Compression flange fully restrained", "Compression flange partially restrained", WarpingNotRestrained}
\* ltb before the unsupported moment check has chosen its coefficients
NoCoefficients == [Kw |-> NoneR, K_value |-> NoneR, c1 |-> NoneR, c2 |-> NoneR, c3 |-> NoneR]

-----------------------------------------------------------------------------
(* Material and partial safety factor.  Stresses are in units of           *)
(* 250/0.77 MPa, so that grade E250 has fy = 0.77, epsilon = sqrt(250/fy)  *)
(* = 1 and fy / (sqrt(3) * gamma_m0) = 0.4 exactly; forces and moments are *)
(* in the matching units.  Lengths are in mm.                              *)

FY == R(77, 100)
\* modulus of elasticity, 2 * 10^5 MPa in the same units
E_STEEL == I(616)
GAMMA_M0 == R(11, 10)
SQRT3 == R(7, 4)
EPSILON == I(1)

\* what a method hands back: the object after it, its return value, and
\* whether an exception left it
Ok(s, r) == [s |-> s, ret |-> r, raised |-> FALSE]
Raise(s) == [s |-> s, ret |-> FALSE, raised |-> TRUE]

\* F applied to a result that is computed once
With(val, F(_)) == F(val)

\* ran, log, end_panel_passed and shear_chain (the ratios the shear checks
\* of the current design_check computed, in order) record what the run did;
\* the program has no such fields
\* the method is entered: remembered in the order of entry
Enter(s, name) == [s EXCEPT !.ran = Append(@, name)]
\* logger.error / logger.warning / logger.info, unless silent
Log(s, silent, msg) == IF silent THEN s ELSE [s EXCEPT !.log = @ \cup {msg}]

-----------------------------------------------------------------------------
(* PlateGirderWelded.set_input_values, lines 703-808: the object a design  *)
(* dictionary dd produces, before the design is triggered.                 *)

InitSelf(dd) ==
    LET optimized == dd.design_type = "Optimized"
        D      == IF optimized THEN I(1) ELSE I(dd.D)
        bf_top == IF optimized THEN I(1) ELSE I(dd.bf_top)
        bf_bot == IF optimized THEN I(1) ELSE I(dd.bf_bot)
        tw     == I(dd.tw_list[1])
        tf_top == I(dd.tf_top_list[1])
        tf_bot == I(dd.tf_bot_list[1])
        stiffw == RSub(RSub(RMin(bf_top, bf_bot), RDiv(tw, I(2))), I(10))
        endw0  == RSub(RSub(RDiv(RMin(bf_top, bf_bot), I(2)), RDiv(tw, I(2))), I(10))
    IN  [ design_type |-> dd.design_type,
          section_class |-> "None",
          total_depth |-> D,
          web_thickness |-> tw,
          top_flange_width |-> bf_top,
          top_flange_thickness |-> tf_top,
          bottom_flange_width |-> bf_bot,
          bottom_flange_thickness |-> tf_bot,
          web_thickness_list |-> dd.tw_list,
          top_flange_thickness_list |-> dd.tf_top_list,
          bottom_flange_thickness_list |-> dd.tf_bot_list,
          eff_depth |-> IF RLt(RAdd(tf_top, tf_bot), D)
                        THEN RSub(RSub(D, tf_top), tf_bot) ELSE I(0),
          IntStiffnerwidth |-> stiffw,
          eff_width_longitudnal |-> stiffw,
          int_thickness_list |-> dd.int_list,
          long_thickness_list |-> dd.long_list,
          deflection_criteria |-> dd.max_defl,
          loading_case |-> dd.loading_case,
          warping |-> dd.warping,
          ltb |-> NoCoefficients,
          support_type |-> dd.support_type,
          length |-> I(dd.length),
          effective_length |-> NoneR,
          beta_b_lt |-> NoneR,
          web_philosophy |-> dd.web_philosophy,
          epsilon |-> EPSILON,
          b1 |-> I(dd.b1),
          c |-> dd.c,
          IntStiffThickness |-> IF Len(dd.int_list) > 0 THEN I(dd.int_list[1]) ELSE I(6),
          LongStiffThickness |-> IF Len(dd.long_list) > 0 THEN I(dd.long_list[1]) ELSE I(6),
          x1 |-> I(0), x2 |-> I(0),
          V_cr |-> NoneR, V_d |-> NoneR, V_tf |-> NoneR,
          long_Stiffner |-> dd.long_Stiffner,
          shear_buckling_option |-> dd.shear_buckling_option,
          load |-> [shear_force |-> dd.shear, moment |-> dd.moment],
          fy |-> FY,
          E |-> E_STEEL,
          gamma_m0 |-> GAMMA_M0,
          Md |-> NoneR, M_cr |-> NoneR,
          Critical_buckling_resistance |-> NoneR,
          plast_sec_mod_z |-> NoneR, elast_sec_mod_z |-> NoneR,
          Zp_req |-> NoneR,
          shear_ratio |-> I(0),
          shear_chain |-> << >>,
          endshear_ratio |-> I(0),
          moment_ratio |-> I(0),
          deflection_ratio |-> I(0),
          web_buckling_ratio |-> I(0),
          end_stiffthickness |-> I(0),
          stiffener_type |-> "None",
          end_stiffwidth |-> IF RLe(endw0, I(0)) THEN I(50) ELSE endw0,
          design_status |-> FALSE,
          design_flag |-> FALSE, design_flag2 |-> FALSE,
          shearflag1 |-> FALSE, shearflag2 |-> FALSE, shearflag3 |-> FALSE,
          shearchecks |-> FALSE, momentchecks |-> FALSE,
          defl_check |-> FALSE, long_check |-> FALSE,
          formatted |-> FALSE, end_panel_passed |-> FALSE, result_UR |-> NoneR,
          intstiffener_spacing |-> NoneR,
          end_panel_stiffener_thickness |-> NoneR,
          catalog_strings |-> dd.catalog_strings,
          thickness_is_str |-> FALSE,
          optimization_variable_list |-> << >>,
          optimization_design_dictionary |-> FALSE,
          optimization_is_thick_web |-> FALSE,
          optimization_is_symmetric |-> FALSE,
          initial_particle |-> << >>,
          best_design_var |-> << >>,
          n_eval |-> 0,
          ran |-> << >>,
          log |-> {} ]

-----------------------------------------------------------------------------
(* PlateGirderLogic: section and material checks.                          *)

\* ductility order: a larger rank is a less ductile (worse) class
Rank(cl) == CASE cl = KEY_Plastic -> 0
              [] cl = KEY_Compact -> 1
              [] cl = KEY_SemiCompact -> 2
              [] cl = Slender -> 3

Worse(a, b) == IF Rank(a) >= Rank(b) THEN a ELSE b

\* mutant: the bottom flange is left out of the combination
CombineClass_NoBottom(flange_class_top, web_class, flange_class_bottom) ==
    IF flange_class_bottom = Slender \/ web_class = Slender \/ flange_class_top = Slender
    THEN Slender
    ELSE Worse(flange_class_top, web_class)

\* mutant: the Plastic-flange / Compact-web branch forgets its SemiCompact case
CombineClass_LostBranch(flange_class_top, web_class, flange_class_bottom) ==
    IF flange_class_top = KEY_Plastic /\ web_class = KEY_Compact
       /\ flange_class_bottom = KEY_SemiCompact
    THEN KEY_Compact
    ELSE Worse(flange_class_top, Worse(web_class, flange_class_bottom))

\* lines 31-63: the nested conditional combining the three component classes
CombineClass(flange_class_top, web_class, flange_class_bottom) ==
    IF flange_class_bottom = Slender \/ web_class = Slender \/ flange_class_top = Slender
    THEN Slender
    ELSE IF flange_class_top = KEY_Plastic
         THEN IF web_class = KEY_Plastic
              THEN IF flange_class_bottom = KEY_Plastic THEN KEY_Plastic
                   ELSE IF flange_class_bottom = KEY_Compact THEN KEY_Compact
                   ELSE KEY_SemiCompact
              ELSE IF web_class = KEY_Compact
              THEN IF flange_class_bottom \in {KEY_Plastic, KEY_Compact}
                   THEN KEY_Compact ELSE KEY_SemiCompact
              ELSE KEY_SemiCompact
         ELSE IF flange_class_top = KEY_Compact
         THEN IF web_class = KEY_Plastic
              THEN IF flange_class_bottom \in {KEY_Plastic, KEY_Compact}
                   THEN KEY_Compact ELSE KEY_SemiCompact
              ELSE IF web_class = KEY_Compact
              THEN IF flange_class_bottom \in {KEY_Plastic, KEY_Compact}
                   THEN KEY_Compact ELSE KEY_SemiCompact
              ELSE KEY_SemiCompact
         ELSE KEY_SemiCompact

\* lines 24-71.  x.flange_class_top, x.flange_class_bottom, x.web_class are
\* what Table2_i / Table2_iii return for the geometry; x.effective_length is
\* what effective_length_beam stores.  The web depth of line 29 subtracts the
\* flange thicknesses from the depth: TypeError when they hold catalog strings.
section_classification(s0, x) ==
    LET s  == Enter(s0, "section_classification")
        cl == CombineClass(x.flange_class_top, x.web_class, x.flange_class_bottom)
        s1 == [s EXCEPT !.design_status = FALSE,
                        !.section_class = cl,
                        !.Zp_req = RDiv(RMul(s.load.moment, s.gamma_m0), s.fy),
                        !.effective_length = x.effective_length]
    IN  IF s.thickness_is_str THEN Raise([s EXCEPT !.design_status = FALSE])
        ELSE Ok(s1, ~(cl = Slender /\ s.web_philosophy = ThickWeb))

\* lines 73-88.  x.Zp, x.Ze are calc_PlasticModulusZ / calc_ElasticModulusZz.
beta_value(s0, x, section_class) ==
    LET s == Enter(s0, "beta_value")
        b == IF section_class = KEY_Plastic \/ section_class = KEY_Compact THEN I(1)
             ELSE IF RIsZero(x.Zp) THEN I(1)
             ELSE RDiv(x.Ze, x.Zp)
    IN  Ok([s EXCEPT !.plast_sec_mod_z = x.Zp,
                     !.elast_sec_mod_z = x.Ze,
                     !.Zp_req = RDiv(RMul(s.load.moment, s.gamma_m0), s.fy),
                     !.beta_b_lt = b], TRUE)

\* lines 90-96.  x.web_thickness_ok is what
\* cl_8_6_1_1_and_8_6_1_2_web_thickness_check returns.
min_web_thickness_thick_web(s0, x, silent) ==
    LET s == Enter(s0, "min_web_thickness_thick_web")
    IN  IF x.web_thickness_ok THEN Ok(s, TRUE)
        ELSE Ok(Log(s, silent, "Web thickness is insufficient."), FALSE)

-----------------------------------------------------------------------------
(* Moment capacity.                                                        *)

\* IS800_2007.cl_8_2_1_2_design_bending_strength for a simply supported beam:
\* beta_b * Zp * fy / gamma_m0 with beta_b * Zp = Ze for a semi-compact
\* section, capped by 1.2 * Ze * fy / gamma_m0.
cl_8_2_1_2_design_bending_strength(section_class, Zp, Ze, Fy, gamma_m0) ==
    LET Z   == IF section_class \in {KEY_Plastic, KEY_Compact} THEN Zp ELSE Ze
        Md  == RDiv(RMul(Z, Fy), gamma_m0)
        cap == RDiv(RMul(RMul(R(12, 10), Ze), Fy), gamma_m0)
    IN  RMin(Md, cap)

\* lines 214-223; Vd = 0 raises ZeroDivisionError
calc_Mdv(V, Vd, Zp, Ze, Fy, gamma_m0, D, tw, tf_top, tf_bot) ==
    IF RIsZero(Vd) THEN [raised |-> TRUE, val |-> NoneR]
    ELSE LET beta == RSq(RSub(RDiv(RMul(I(2), V), Vd), I(1)))
             d    == RSub(D, RAdd(tf_top, tf_bot))
             Aw   == RMul(d, tw)
             Zfd  == RSub(Zp, RDiv(RMul(Aw, D), I(4)))
             Mfd  == RDiv(RMul(Zfd, Fy), gamma_m0)
             Md   == RDiv(RMul(Zp, Fy), gamma_m0)
             Mdv  == RSub(Md, RMul(beta, RSub(Md, Mfd)))
             Mdv_limit == RDiv(RMul(RMul(R(12, 10), Ze), Fy), gamma_m0)
         IN  [raised |-> FALSE, val |-> Round2(RMin(Mdv, Mdv_limit))]

\* lines 225-233
calc_Mdv_lat_unsupported(V, Vd, Zp, Ze, Fy, gamma_m0, D, tw, tf_top, tf_bot, Md_low_shear) ==
    IF RIsZero(Vd) THEN [raised |-> TRUE, val |-> NoneR]
    ELSE LET beta == RSq(RSub(RDiv(RMul(I(2), V), Vd), I(1)))
             d    == RSub(D, RAdd(tf_top, tf_bot))
             Aw   == RMul(d, tw)
             Zfd  == RSub(Zp, RDiv(RMul(Aw, D), I(4)))
             Mfd  == RDiv(RMul(Zfd, Fy), gamma_m0)
             Mdv  == RSub(Md_low_shear, RMul(beta, RSub(Md_low_shear, Mfd)))
             Mdv_limit == RDiv(RMul(RMul(R(12, 10), Ze), Fy), gamma_m0)
         IN  [raised |-> FALSE, val |-> Round2(RMin(Mdv, Mdv_limit))]

\* lines 108-113 and 207-212: the ratio and verdict from self.Md
MomentVerdict(s) ==
    IF RIsZero(s.Md) THEN Ok([s EXCEPT !.moment_ratio = FailRatio], FALSE)
    ELSE Ok([s EXCEPT !.moment_ratio = RDiv(s.load.moment, s.Md)],
            RLe(s.load.moment, s.Md))

\* plastic design shear strength of the web, lines 101-102, 185-186, 244
ShearStrength(A_vg, Fy, gamma_m0) == RDiv(RMul(A_vg, Fy), RMul(SQRT3, gamma_m0))

HighShear(V, V_d) == RLt(RMul(R(6, 10), V_d), V)

\* lines 100-113
moment_capacity_laterally_supported(s0, V, Zp, Ze, Fy, gamma_m0, D, tw, tf_top, tf_bot, section_class) ==
    LET s    == Enter(s0, "moment_capacity_laterally_supported")
        A_vg == RMul(RSub(RSub(D, tf_top), tf_bot), tw)
        s1   == [s EXCEPT !.V_d = ShearStrength(A_vg, Fy, gamma_m0)]
    IN  IF HighShear(V, s1.V_d)
        THEN LET r  == calc_Mdv(V, s1.V_d, Zp, Ze, Fy, gamma_m0, D, tw, tf_top, tf_bot)
                 s2 == Enter(s1, "calc_Mdv")
             IN  IF r.raised THEN Raise(s2)
                 ELSE MomentVerdict([s2 EXCEPT !.Md = r.val])
        ELSE MomentVerdict([s1 EXCEPT !.Md =
                 cl_8_2_1_2_design_bending_strength(section_class, Zp, Ze, Fy, gamma_m0)])

\* lines 873-888: the effective length factor for the warping restraint
get_K_from_warping_restraint(warping_condition) ==
    IF warping_condition = "Both flanges fully restrained" THEN R(1, 2)
    ELSE IF warping_condition = "Compression flange fully restrained" THEN R(7, 10)
    ELSE IF warping_condition = "Compression flange partially restrained" THEN R(85, 100)
    ELSE IF warping_condition = WarpingNotRestrained THEN I(1)
    ELSE I(1)

\* LTBCoefficients with the fallback of lines 163-165 taking the
\* coefficients of the fixed-fixed case
LTBCoefficients_FixedFallback(LoadingCase) ==
    IF LoadingCase = KEY_DISP_UDL_PIN_PIN_PG
    THEN [K_value |-> I(1), c1 |-> R(1132, 1000), c2 |-> R(459, 1000), c3 |-> R(525, 1000)]
    ELSE IF LoadingCase = KEY_DISP_PL_PIN_PIN_PG
    THEN [K_value |-> I(1), c1 |-> R(1365, 1000), c2 |-> R(553, 1000), c3 |-> R(1780, 1000)]
    ELSE IF LoadingCase = KEY_DISP_PL_FIX_FIX_PG
    THEN [K_value |-> R(1, 2), c1 |-> R(938, 1000), c2 |-> R(715, 1000), c3 |-> R(4800, 1000)]
    ELSE [K_value |-> R(1, 2), c1 |-> R(712, 1000), c2 |-> R(652, 1000), c3 |-> R(1070, 1000)]

\* lines 149-168: K_value and c1, c2, c3 for the loading case
LTBCoefficients(LoadingCase) ==
    IF LoadingCase = KEY_DISP_UDL_PIN_PIN_PG
    THEN [K_value |-> I(1), c1 |-> R(1132, 1000), c2 |-> R(459, 1000), c3 |-> R(525, 1000)]
    ELSE IF LoadingCase = KEY_DISP_UDL_FIX_FIX_PG
    THEN [K_value |-> R(1, 2), c1 |-> R(712, 1000), c2 |-> R(652, 1000), c3 |-> R(1070, 1000)]
    ELSE IF LoadingCase = KEY_DISP_PL_PIN_PIN_PG
    THEN [K_value |-> I(1), c1 |-> R(1365, 1000), c2 |-> R(553, 1000), c3 |-> R(1780, 1000)]
    ELSE IF LoadingCase = KEY_DISP_PL_FIX_FIX_PG
    THEN [K_value |-> R(1, 2), c1 |-> R(938, 1000), c2 |-> R(715, 1000), c3 |-> R(4800, 1000)]
    ELSE [K_value |-> I(1), c1 |-> R(1132, 1000), c2 |-> R(459, 1000), c3 |-> R(525, 1000)]

\* lines 132 and 149-168 of moment_capacity_laterally_unsupported: the
\* coefficients the closed form of M_cr is evaluated with, kept in ltb, and
\* the warnings for a warping restraint or loading case that is not known
SelectCoefficients(s, LoadingCase, silent) ==
    LET s1 == IF s.warping \in WarpingRestraints THEN s
              ELSE Log(s, silent, "Invalid warping restraint")
        s2 == IF LoadingCase \in LoadingCases THEN s1
              ELSE Log(s1, silent, "Invalid Loading Case")
        co == LTBCoefficients(LoadingCase)
    IN  [s2 EXCEPT !.ltb = [Kw |-> get_K_from_warping_restraint(s.warping),
                            K_value |-> co.K_value, c1 |-> co.c1, c2 |-> co.c2,
                            c3 |-> co.c3]]

\* lines 115-212.  x.Iy is calc_MomentOfAreaY; x.M_cr is the value of the
\* closed form of lines 172-183 (it needs LLT /= 0); x.Md_lt is the design
\* bending strength that cl_8_2_2 (lines 191-198) yields from it.
moment_capacity_laterally_unsupported(s0, x, E, LLT, D, tf_top, tf_bot, Bf_top, Bf_bot, tw, LoadingCase, gamma_m0, Fy, shear_force, silent) ==
    With(SelectCoefficients(Enter(s0, "moment_capacity_laterally_unsupported"),
                            LoadingCase, silent), LAMBDA s :
    LET zero == RIsZero(x.Iy) \/ RIsZero(E)
    IN  IF ~zero /\ RIsZero(LLT) THEN Raise(s)
        ELSE
        LET s1   == [s EXCEPT !.M_cr = IF zero THEN I(0) ELSE x.M_cr]
            A_vg == RMul(RSub(RSub(D, tf_top), tf_bot), tw)
            s2   == [s1 EXCEPT !.V_d = ShearStrength(A_vg, Fy, gamma_m0)]
            s3   == [s2 EXCEPT !.Md = IF RLe(s2.M_cr, I(0)) THEN I(0) ELSE x.Md_lt]
        IN  IF HighShear(shear_force, s3.V_d)
            THEN LET r == calc_Mdv_lat_unsupported(s3.load.shear_force, s3.V_d,
                              s3.plast_sec_mod_z, s3.elast_sec_mod_z, s3.fy, s3.gamma_m0,
                              s3.total_depth, s3.web_thickness, s3.top_flange_thickness,
                              s3.bottom_flange_thickness, s3.Md)
                     s4 == Enter(s3, "calc_Mdv_lat_unsupported")
                 IN  IF r.raised THEN Raise(s4)
                     ELSE MomentVerdict([s4 EXCEPT !.Md = r.val])
            ELSE MomentVerdict(s3))

-----------------------------------------------------------------------------
(* Shear capacity and shear buckling.                                      *)

\* lines 237-246
shear_capacity_laterally_supported_thick_web(s0, Fy, gamma_m0, D, tw, tf_top, tf_bot) ==
    LET s    == Enter(s0, "shear_capacity_laterally_supported_thick_web")
        A_vg == RMul(RSub(RSub(D, tf_top), tf_bot), tw)
    IN  IF RLe(A_vg, I(0))
        THEN Ok([s EXCEPT !.V_d = I(0), !.shear_ratio = FailRatio,
                          !.shear_chain = Append(@, FailRatio)], FALSE)
        ELSE LET V_d == ShearStrength(A_vg, Fy, gamma_m0)
             IN  Ok([s EXCEPT !.V_d = V_d,
                              !.shear_ratio = RDiv(s.load.shear_force, V_d),
                              !.shear_chain = Append(@, RDiv(s.load.shear_force, V_d))],
                    RLe(s.load.shear_force, V_d))

\* IS800_2007.cl_8_4_2_2_Vcr_Simple_postcritical: V_cr = A_v * tau_b
cl_8_4_2_2_Vcr_Simple_postcritical(tau_b, A_vg) == RMul(A_vg, tau_b)

\* lines 248-272.  x.tau_b is the shear stress cl_8_4_2_2_tau_b yields for
\* the panel (K_v, tau_crc, lambda_w are used for nothing else).
shear_buckling_check_simple_postcritical(s0, x, eff_depth, D, tf_top, tf_bot, tw, V, c) ==
    LET s == Enter(s0, "shear_buckling_check_simple_postcritical")
    IN  IF RLe(eff_depth, I(0))
        THEN Ok([s EXCEPT !.V_cr = I(0), !.shear_ratio = FailRatio,
                          !.shear_chain = Append(@, FailRatio)], FALSE)
        ELSE LET A_vg == RMul(eff_depth, tw)
                 V_cr == cl_8_4_2_2_Vcr_Simple_postcritical(x.tau_b, A_vg)
                 s1   == [s EXCEPT !.V_cr = V_cr]
             IN  IF RIsZero(V_cr) THEN Raise(s1)
                 ELSE Ok([s1 EXCEPT !.shear_ratio =
                              RMax(RDiv(s.load.shear_force, V_cr), s.shear_ratio),
                                    !.shear_chain =
                              Append(@, RDiv(s.load.shear_force, V_cr))],
                         RLt(V, V_cr))

\* lines 274-301.  x.V_tf is the last component of
\* cl_8_4_2_2_TensionField_unequal_Isection.
shear_buckling_check_tension_field(s0, x, eff_depth, D, tf_top, tf_bot, tw, c) ==
    LET s == Enter(s0, "shear_buckling_check_tension_field")
    IN  IF RLe(eff_depth, I(0))
        THEN Ok([s EXCEPT !.V_tf = I(0), !.shear_ratio = FailRatio,
                          !.shear_chain = Append(@, FailRatio)], FALSE)
        ELSE LET A_vg == RMul(RSub(RSub(D, tf_top), tf_bot), tw)
                 V_cr == cl_8_4_2_2_Vcr_Simple_postcritical(x.tau_b, A_vg)
                 s1   == [s EXCEPT !.V_cr = V_cr]
                 Nden == RAdd(eff_depth, RDiv(RAdd(tf_top, tf_bot), I(2)))
                 s2   == [s1 EXCEPT !.V_tf = x.V_tf]
             IN  IF RIsZero(Nden) THEN Raise(s1)
                 ELSE IF RIsZero(x.V_tf) THEN Raise(s2)
                 ELSE Ok([s2 EXCEPT !.shear_ratio =
                              RMax(RDiv(s.load.shear_force, x.V_tf), s.shear_ratio),
                                    !.shear_chain =
                              Append(@, RDiv(s.load.shear_force, x.V_tf))],
                         RLe(s.load.shear_force, x.V_tf))

-----------------------------------------------------------------------------
(* Web buckling and web crippling.                                         *)

\* web_buckling_laterally_supported_thick_web with line 323 writing its own
\* ratio over the one the object holds
web_buckling_laterally_supported_thick_web_Overwrites(s0, x, Fy, gamma_m0, D, tw, tf_top, tf_bot, E, b1) ==
    LET s  == Enter(s0, "web_buckling_laterally_supported_thick_web")
        s1 == [s EXCEPT !.eff_depth = RSub(D, RAdd(tf_bot, tf_top))]
    IN  IF RLe(s1.eff_depth, I(0))
        THEN Ok([s1 EXCEPT !.web_buckling_ratio = FailRatio,
                           !.shear_ratio = RMax(FailRatio, s.shear_ratio),
                           !.shear_chain = Append(@, FailRatio)], FALSE)
        ELSE IF RIsZero(tw) THEN Raise(s1)
        ELSE LET n1  == RDiv(s1.eff_depth, I(2))
                 Ac  == RMul(RAdd(b1, n1), tw)
                 Critical_buckling_load == Round2(RMul(Ac, x.fcd_web))
                 wbr == IF RIsZero(Critical_buckling_load) THEN FailRatio
                        ELSE RDiv(s.load.shear_force, Critical_buckling_load)
             IN  Ok([s1 EXCEPT !.web_buckling_ratio = wbr,
                               !.shear_ratio = wbr,
                               !.shear_chain = Append(@, wbr)],
                    RLe(s.load.shear_force, Critical_buckling_load))

\* lines 305-324.  x.fcd_web is cl_7_1_2_1_design_compressisive_stress for
\* the web strut.
web_buckling_laterally_supported_thick_web(s0, x, Fy, gamma_m0, D, tw, tf_top, tf_bot, E, b1) ==
    LET s  == Enter(s0, "web_buckling_laterally_supported_thick_web")
        s1 == [s EXCEPT !.eff_depth = RSub(D, RAdd(tf_bot, tf_top))]
    IN  IF RLe(s1.eff_depth, I(0))
        THEN Ok([s1 EXCEPT !.web_buckling_ratio = FailRatio,
                           !.shear_ratio = RMax(FailRatio, s.shear_ratio),
                           !.shear_chain = Append(@, FailRatio)], FALSE)
        ELSE IF RIsZero(tw) THEN Raise(s1)
        ELSE LET n1  == RDiv(s1.eff_depth, I(2))
                 Ac  == RMul(RAdd(b1, n1), tw)
                 Critical_buckling_load == Round2(RMul(Ac, x.fcd_web))
                 wbr == IF RIsZero(Critical_buckling_load) THEN FailRatio
                        ELSE RDiv(s.load.shear_force, Critical_buckling_load)
             IN  Ok([s1 EXCEPT !.web_buckling_ratio = wbr,
                               !.shear_ratio = RMax(wbr, s.shear_ratio),
                               !.shear_chain = Append(@, wbr)],
                    RLe(s.load.shear_force, Critical_buckling_load))

\* lines 337-387.  x.sqrt_fyE is math.sqrt(fy * E) for the material.
check_web_crippling(s0, x, N, tw, fy, d, silent) ==
    LET s == Enter(s0, "check_web_crippling")
    IN  IF RLe(N, I(0)) \/ RLe(tw, I(0)) \/ RLe(fy, I(0)) \/ RLe(d, I(0))
        THEN Ok(Log(s, silent, "Invalid input parameters (<= 0) for web crippling check"), FALSE)
        ELSE LET P_w0 == RMul(RMul(RMul(RMul(R(325, 100), R(15, 100)), RSq(tw)), x.sqrt_fyE),
                              RAdd(I(1), RDiv(N, d)))
                 P_w  == RDiv(P_w0, s.gamma_m0)
                 s1   == IF RLt(I(200), RDiv(d, tw))
                         THEN Log(s, silent, "Web slenderness ratio (d/tw) exceeds 200.")
                         ELSE s
             IN  IF RLe(s.load.shear_force, P_w) THEN Ok(s1, TRUE)
                 ELSE Ok(Log(s1, silent, "Web crippling resistance is less than factored load"), FALSE)

\* lines 326-335
web_crippling_laterally_supported_thick_web(s0, x, Fy, gamma_m0, tw, tf_top, b1, silent) ==
    LET s == Enter(s0, "web_crippling_laterally_supported_thick_web")
        web_height == RSub(RSub(s.total_depth, s.top_flange_thickness), s.bottom_flange_thickness)
    IN  IF RLe(web_height, I(0)) THEN Ok(s, FALSE)
        ELSE check_web_crippling(s, x, b1, tw, Fy, web_height, silent)

-----------------------------------------------------------------------------
(* Stiffener design.                                                       *)

\* line 423: the stiffener thicknesses the end-panel search walks through
thickness_list ==
    <<8, 10, 12, 14, 16, 18, 20, 22, 25, 28, 32, 36, 40, 45, 50, 56, 63, 75,
      80, 90, 100, 110, 120>>

\* second moment of area of a pair of stiffener plates about the web centre
\* line (lines 458 and 530)
StiffenerPlatesI(thk, width, tw) ==
    RMul(I(2), RAdd(RDiv(RMul(thk, RMul(width, RSq(width))), I(12)),
                    RMul(RMul(width, thk),
                         RSq(RAdd(RDiv(tw, I(2)), RDiv(width, I(2)))))))

\* lines 434-487: one pass of the loop body for the thickness thk.  a holds
\* the arguments of end_panel_stiffener_calc; x.fcd_end is the design
\* compressive stress of the stiffener strut.
EndPanelEntry(s, x, a, thk) ==
    LET w0  == IF RLe(s.end_stiffwidth, I(0))
               THEN With(RDiv(RSub(RMin(a.Bf_top, a.Bf_bot), a.tw), I(2)), LAMBDA w1 :
                         IF RLe(w1, I(0)) THEN I(50) ELSE w1)
               ELSE s.end_stiffwidth
    IN  With(RMin(RMul(RMul(I(14), thk), a.eps), w0), LAMBDA width :
        With(RAdd(RMul(RMul(I(2), width), thk),
                  RMul(RMin(RMul(I(20), a.tw), RDiv(a.d, I(2))), a.tw)),
             LAMBDA A_q_bearing :
        With(RAdd(RMul(RMul(I(2), width), thk),
                  RMul(RMin(RMul(I(20), a.tw), RDiv(a.c, I(2))), a.tw)),
             LAMBDA A_q_buckling :
        [too_thin |-> RLt(thk, RDiv(width, I(16))),
         no_area  |-> RIsZero(A_q_buckling),
         Pd       |-> RMul(A_q_buckling, x.fcd_end),
         P_bf     |-> RDiv(RMul(A_q_bearing, a.fy), a.gamma_m0)])))

\* lines 431-492: the loop from entry i of thickness_list on.  Returns the
\* object and found_stiffener.
RECURSIVE EndPanelScan(_, _, _, _)
EndPanelScan(s, x, a, i) ==
    IF i > Len(thickness_list) THEN [s |-> s, found |-> FALSE]
    ELSE
    With(EndPanelEntry(s, x, a, I(thickness_list[i])), LAMBDA e :
    With([s EXCEPT !.end_stiffthickness = I(thickness_list[i]),
                   !.Critical_buckling_resistance =
                       IF e.too_thin \/ e.no_area THEN @ ELSE e.Pd,
                   !.endshear_ratio =
                       IF e.too_thin \/ e.no_area THEN @
                       ELSE IF RIsZero(e.Pd) \/ RIsZero(e.P_bf) THEN FailRatio
                       ELSE RMax(RDiv(s.load.shear_force, e.Pd),
                                 RDiv(s.load.shear_force, e.P_bf))],
         LAMBDA s1 :
    IF ~e.too_thin /\ ~e.no_area /\ ~RIsZero(e.Pd) /\ ~RIsZero(e.P_bf)
       /\ RLe(s1.endshear_ratio, I(1))
    THEN [s |-> s1, found |-> TRUE]
    ELSE EndPanelScan(s1, x, a, i + 1)))

\* lines 391-500.  c is a number, NA or NoneR.
end_panel_stiffener_calc(s0, x, Bf_top, Bf_bot, tw, fy, gamma_m0, d, tf_top, total_depth, effective_length, tf_bot, E, eps, c, silent) ==
    LET s == Enter(s0, "end_panel_stiffener_calc")
    IN  IF RLe(d, I(0))
        THEN Ok([s EXCEPT !.endshear_ratio = FailRatio,
                          !.shear_ratio = RMax(FailRatio, s.shear_ratio),
                          !.shear_chain = Append(@, FailRatio)], FALSE)
        ELSE
        LET A_vg == RMul(d, tw)
            cc   == IF c = NoneR \/ c = NA \/ RIsZero(c) THEN d ELSE c
            s1   == [s EXCEPT !.V_cr = cl_8_4_2_2_Vcr_Simple_postcritical(x.tau_b, A_vg)]
        IN  IF Len(s.int_thickness_list) = 0
            THEN Ok(Log(s1, silent, "Intermediate stiffener thickness list is empty."), FALSE)
            ELSE
            LET a == [Bf_top |-> Bf_top, Bf_bot |-> Bf_bot, tw |-> tw, fy |-> fy,
                      gamma_m0 |-> gamma_m0, d |-> d, eps |-> eps, c |-> cc]
                r == EndPanelScan(s1, x, a, 1)
                s2 == [r.s EXCEPT !.shear_ratio = RMax(r.s.endshear_ratio, r.s.shear_ratio),
                                  !.shear_chain = Append(@, r.s.endshear_ratio)]
            IN  IF ~r.found THEN Ok([s2 EXCEPT !.end_stiffthickness = I(0)], FALSE)
                ELSE Ok(s2, TRUE)

\* shear_buckling_check_intermediate_stiffener without the rigidity
\* requirement of lines 533-534
shear_buckling_check_intermediate_stiffener_NoRigidity(s0, x, d, tw, c, e, IntStiffThickness, IntStiffenerWidth0, V_ed, gamma_m0, fy, E) ==
    LET s == Enter(s0, "shear_buckling_check_intermediate_stiffener")
    IN  IF RLe(d, I(0)) THEN Ok(s, FALSE)
        ELSE IF RLe(c, I(0)) THEN Ok(s, FALSE)
        ELSE
        LET A_vg == RMul(d, tw)
            s1   == [s EXCEPT !.V_cr = cl_8_4_2_2_Vcr_Simple_postcritical(x.tau_b, A_vg)]
            cd_ratio == RDiv(c, d)
            \* cd_ratio >= math.sqrt(2), both sides positive
            I_min_global == IF RLe(I(2), RSq(cd_ratio))
                            THEN RMul(RMul(R(3, 4), d), RMul(tw, RSq(tw)))
                            \* 1.5 * d^3 * tw^3 / c^2, the factors taken in the
                            \* order that keeps the exact intermediates small
                            ELSE RMul(R(3, 2), RMul(RMul(RSq(RDiv(d, c)), d),
                                                    RMul(tw, RSq(tw))))
            max_outstand == RMul(RMul(I(14), IntStiffThickness), e)
            IntStiffenerWidth == IF RLt(max_outstand, IntStiffenerWidth0)
                                 THEN max_outstand ELSE IntStiffenerWidth0
            I_s == StiffenerPlatesI(IntStiffThickness, IntStiffenerWidth, tw)
        IN
            LET F_q == RSub(V_ed, s1.V_cr)
            IN  IF RLe(F_q, I(0))
                THEN Ok([s1 EXCEPT !.Critical_buckling_resistance = Inf], TRUE)
                ELSE
                LET A_s == RMul(RMul(I(2), IntStiffenerWidth), IntStiffThickness)
                    web_contrib_length_buckling == RMin(RMul(I(20), tw), RDiv(c, I(2)))
                    A_x == RAdd(A_s, RMul(web_contrib_length_buckling, tw))
                IN  IF RIsZero(A_x) THEN Ok(s1, FALSE)
                    ELSE
                    LET Pd == Round2(RMul(A_x, x.fcd_int))
                        r  == IF RLt(I(0), Pd) THEN RDiv(F_q, Pd) ELSE FailRatio
                    IN  Ok([s1 EXCEPT !.shear_ratio = RMax(r, s.shear_ratio),
                                      !.shear_chain = Append(@, r),
                                      !.Critical_buckling_resistance = Pd],
                           RLe(F_q, Pd))

\* lines 502-563.  x.fcd_int is the design compressive stress of the
\* intermediate stiffener strut.
shear_buckling_check_intermediate_stiffener(s0, x, d, tw, c, e, IntStiffThickness, IntStiffenerWidth0, V_ed, gamma_m0, fy, E) ==
    LET s == Enter(s0, "shear_buckling_check_intermediate_stiffener")
    IN  IF RLe(d, I(0)) THEN Ok(s, FALSE)
        ELSE IF RLe(c, I(0)) THEN Ok(s, FALSE)
        ELSE
        LET A_vg == RMul(d, tw)
            s1   == [s EXCEPT !.V_cr = cl_8_4_2_2_Vcr_Simple_postcritical(x.tau_b, A_vg)]
            cd_ratio == RDiv(c, d)
            \* cd_ratio >= math.sqrt(2), both sides positive
            I_min_global == IF RLe(I(2), RSq(cd_ratio))
                            THEN RMul(RMul(R(3, 4), d), RMul(tw, RSq(tw)))
                            \* 1.5 * d^3 * tw^3 / c^2, the factors taken in the
                            \* order that keeps the exact intermediates small
                            ELSE RMul(R(3, 2), RMul(RMul(RSq(RDiv(d, c)), d),
                                                    RMul(tw, RSq(tw))))
            max_outstand == RMul(RMul(I(14), IntStiffThickness), e)
            IntStiffenerWidth == IF RLt(max_outstand, IntStiffenerWidth0)
                                 THEN max_outstand ELSE IntStiffenerWidth0
            I_s == StiffenerPlatesI(IntStiffThickness, IntStiffenerWidth, tw)
        IN  IF RLt(I_s, I_min_global) THEN Ok(s1, FALSE)
            ELSE
            LET F_q == RSub(V_ed, s1.V_cr)
            IN  IF RLe(F_q, I(0))
                THEN Ok([s1 EXCEPT !.Critical_buckling_resistance = Inf], TRUE)
                ELSE
                LET A_s == RMul(RMul(I(2), IntStiffenerWidth), IntStiffThickness)
                    web_contrib_length_buckling == RMin(RMul(I(20), tw), RDiv(c, I(2)))
                    A_x == RAdd(A_s, RMul(web_contrib_length_buckling, tw))
                IN  IF RIsZero(A_x) THEN Ok(s1, FALSE)
                    ELSE
                    LET Pd == Round2(RMul(A_x, x.fcd_int))
                        r  == IF RLt(I(0), Pd) THEN RDiv(F_q, Pd) ELSE FailRatio
                    IN  Ok([s1 EXCEPT !.shear_ratio = RMax(r, s.shear_ratio),
                                      !.shear_chain = Append(@, r),
                                      !.Critical_buckling_resistance = Pd],
                           RLe(F_q, Pd))

\* lines 578-610.  x.d_na is calc_centroid for the section; x1, x2 are
\* int(round(.)) of 0.2 * d_na and d_na, kept to the hundredth here.
design_longitudinal_stiffeners(s0, x, d, tw, c, eps_w, second_stiffener, silent) ==
    LET s == Enter(s0, "design_longitudinal_stiffeners")
    IN  IF RLe(d, I(0)) \/ RLe(c, I(0)) \/ RLe(tw, I(0)) THEN Ok(s, FALSE)
        ELSE
        LET s1 == [s EXCEPT !.x1 = Round2(RMul(x.d_na, R(2, 10))),
                            !.x2 = Round2(x.d_na)]
            I1_min == RMul(RMul(I(4), d), RMul(tw, RSq(tw)))
            I2_min == RMul(d, RMul(tw, RSq(tw)))
            width_ls == s.eff_width_longitudnal
            thick_ls == s.LongStiffThickness
        IN  IF RLe(width_ls, I(0)) \/ RLe(thick_ls, I(0)) THEN Ok(s1, FALSE)
            ELSE
            LET Is_provided_1 == RDiv(RMul(thick_ls, RMul(width_ls, RSq(width_ls))), I(3))
                Is_provided_2 == Is_provided_1
            IN  IF ~second_stiffener THEN Ok(s1, RLe(I1_min, Is_provided_1))
                ELSE Ok(s1, RLe(I1_min, Is_provided_1) /\ RLe(I2_min, Is_provided_2))

-----------------------------------------------------------------------------
(* Serviceability (deflection).                                            *)


\* lines 614-632
deflection_from_moment_kNm_mm(M_kNm, L, E, Iz, case) ==
    IF RIsZero(E) \/ RIsZero(Iz) THEN Inf
    ELSE LET pref == RDiv(RMul(M_kNm, RSq(L)), RMul(RMul(E, Iz), R(3, 2)))
         IN  IF case = KEY_DISP_UDL_PIN_PIN_PG THEN RMul(R(5, 48), pref)
             ELSE IF case = KEY_DISP_UDL_FIX_FIX_PG THEN RMul(R(1, 32), pref)
             ELSE IF case = KEY_DISP_PL_PIN_PIN_PG THEN RMul(R(1, 12), pref)
             ELSE IF case = KEY_DISP_PL_FIX_FIX_PG THEN RMul(R(1, 24), pref)
             ELSE RMul(R(5, 48), pref)

\* mutant: a non-positive criterion is a failure instead of a skipped check
evaluate_deflection_kNm_mm_StrictCriterion(s0, x, M_kNm, L, E, case, criteria, silent) ==
    LET s == Enter(s0, "evaluate_deflection_kNm_mm")
    IN  IF RIsZero(x.Iz) THEN Ok([s EXCEPT !.deflection_ratio = FailRatio], FALSE)
        ELSE IF criteria = NA \/ criteria = Unparseable
        THEN Ok([s EXCEPT !.deflection_ratio = I(0)], TRUE)
        ELSE IF RLe(criteria, I(0))
        THEN Ok([s EXCEPT !.deflection_ratio = FailRatio], FALSE)
        ELSE
        LET delta == deflection_from_moment_kNm_mm(M_kNm, L, E, x.Iz, case)
            allowable == RDiv(L, criteria)
        IN  Ok([s EXCEPT !.deflection_ratio = RDiv(delta, allowable)],
               RLe(delta, allowable))

\* lines 634-669.  x.Iz is calc_MomentOfAreaZ for the section; criteria is a
\* number, NA, or Unparseable (float() raises ValueError, caught at 656).
evaluate_deflection_kNm_mm(s0, x, M_kNm, L, E, case, criteria, silent) ==
    LET s == Enter(s0, "evaluate_deflection_kNm_mm")
    IN  IF RIsZero(x.Iz) THEN Ok([s EXCEPT !.deflection_ratio = FailRatio], FALSE)
        ELSE
        LET delta == deflection_from_moment_kNm_mm(M_kNm, L, E, x.Iz, case)
            s1 == IF case \in {KEY_DISP_UDL_PIN_PIN_PG, KEY_DISP_UDL_FIX_FIX_PG,
                               KEY_DISP_PL_PIN_PIN_PG, KEY_DISP_PL_FIX_FIX_PG}
                     \/ RIsZero(E)
                  THEN s ELSE Log(s, silent, "Unknown deflection case")
        IN  IF criteria = NA
            THEN Ok([Log(s1, silent, "Deflection criteria is 'NA'. Skipping deflection check.")
                        EXCEPT !.deflection_ratio = I(0)], TRUE)
            ELSE IF criteria = Unparseable
            THEN Ok([Log(s1, silent, "Could not parse deflection criteria")
                        EXCEPT !.deflection_ratio = I(0)], TRUE)
            ELSE IF RLe(criteria, I(0))
            THEN Ok([Log(s1, silent, "Invalid deflection criteria")
                        EXCEPT !.deflection_ratio = I(0)], TRUE)
            ELSE
            LET allowable == RDiv(L, criteria)
            IN  IF RIsZero(allowable)
                THEN Ok([s1 EXCEPT !.deflection_ratio = FailRatio], FALSE)
                ELSE Ok([s1 EXCEPT !.deflection_ratio = RDiv(delta, allowable)],
                        RLe(delta, allowable))

-----------------------------------------------------------------------------
(* PlateGirderWelded: the design_check orchestrator.                       *)

\* lines 1083-1122.  The call at line 1116 hands seven arguments (shear,
\* two flange widths and thicknesses, eff_depth, [fu]) to the eight
\* parameters of design_welds_with_strength_web_to_flange: TypeError, after
\* the assignments of lines 1088-1114.
final_format(s0) ==
    LET s == Enter(s0, "final_format")
    IN  Raise([s EXCEPT !.result_UR = RMax(RMax(s.moment_ratio, s.shear_ratio),
                                           s.deflection_ratio),
                        !.intstiffener_spacing = s.c,
                        !.end_panel_stiffener_thickness = s.end_stiffthickness])

\* a step of design_check: it returned (ret, raised) or it goes on from s
Returned(r) == [s |-> r.s, ret |-> r.ret, raised |-> r.raised, returned |-> TRUE]
GoOn(s) == [s |-> s, ret |-> FALSE, raised |-> FALSE, returned |-> FALSE]

SpacingMissing == "Stiffener spacing (c) not provided for 'Thin Web' design."
SpacingNonPositive == "Stiffener spacing (c) must be greater than 0."

\* lines 872-875 and 910-913: the moment check the support type selects
SelectedMomentCheck(s, x, silent) ==
    IF s.support_type = "Major Laterally Supported"
    THEN moment_capacity_laterally_supported(s, s.load.shear_force, s.plast_sec_mod_z,
             s.elast_sec_mod_z, s.fy, s.gamma_m0, s.total_depth, s.web_thickness,
             s.top_flange_thickness, s.bottom_flange_thickness, s.section_class)
    ELSE moment_capacity_laterally_unsupported(s, x, s.E, s.effective_length,
             s.total_depth, s.top_flange_thickness, s.bottom_flange_thickness,
             s.top_flange_width, s.bottom_flange_width, s.web_thickness,
             s.loading_case, s.gamma_m0, s.fy, s.load.shear_force, silent)

\* lines 847-858: the flange warnings of a non-silent run
FlangeWarnings(s, silent) ==
    IF silent THEN GoOn(s)
    ELSE IF RLt(I(0), s.top_flange_thickness) /\ RIsZero(s.bottom_flange_thickness)
    THEN Returned(Raise(s))
    ELSE
    LET min_b_tf == RMul(R(74, 10), s.epsilon)
        s1 == IF RLt(I(0), s.top_flange_thickness)
                 /\ RLt(RDiv(s.top_flange_width, s.top_flange_thickness), min_b_tf)
              THEN Log(s, silent, "Top flange b/tf ratio is low, flanges may be too thick.")
              ELSE s
        s2 == IF RLt(I(0), s.top_flange_thickness)
                 /\ RLt(RDiv(s.bottom_flange_width, s.bottom_flange_thickness), min_b_tf)
              THEN Log(s1, silent, "Bottom flange b/tf ratio is low, flanges may be too thick.")
              ELSE s1
        s3 == IF RLt(s.bottom_flange_width, s.top_flange_width)
              THEN Log(s2, silent, "Bottom flange width is less than top flange width.")
              ELSE s2
    IN  GoOn(IF RLt(s.bottom_flange_thickness, s.top_flange_thickness)
             THEN Log(s3, silent, "Bottom flange thickness is less than top flange thickness.")
             ELSE s3)

\* ThickWebBranch without the gate of lines 866 and 875-877: the strength
\* checks run whatever the minimum web thickness check gave.
ThickWebBranch_NoThicknessGate(s, x, silent) ==
    With(min_web_thickness_thick_web(s, x, silent), LAMBDA r1 :
    LET s1 == [r1.s EXCEPT !.design_flag2 = r1.ret]
    IN
        With(shear_capacity_laterally_supported_thick_web(s1, s1.fy, s1.gamma_m0,
                 s1.total_depth, s1.web_thickness, s1.top_flange_thickness,
                 s1.bottom_flange_thickness), LAMBDA r2 :
        LET s2 == [r2.s EXCEPT !.shearflag1 = r2.ret]
        IN  With(web_buckling_laterally_supported_thick_web(s2, x, s2.fy, s2.gamma_m0,
                     s2.total_depth, s2.web_thickness, s2.top_flange_thickness,
                     s2.bottom_flange_thickness, s2.E, s2.b1), LAMBDA r3 :
            LET s3 == [r3.s EXCEPT !.shearflag2 = r3.ret]
            IN  With(web_crippling_laterally_supported_thick_web(s3, x, s3.fy, s3.gamma_m0,
                         s3.web_thickness, s3.top_flange_thickness, s3.b1, silent),
                     LAMBDA r4 :
                LET s4 == [r4.s EXCEPT !.shearflag3 = r4.ret,
                                       !.shearchecks = s3.shearflag1 /\ s3.shearflag2
                                                       /\ r4.ret]
                IN  With(SelectedMomentCheck(s4, x, silent), LAMBDA r5 :
                    IF r3.raised THEN Returned(Raise(r3.s))
                    ELSE IF r5.raised THEN Returned(Raise(r5.s))
                    ELSE GoOn([r5.s EXCEPT !.momentchecks = r5.ret]))))))

\* lines 864-878
ThickWebBranch(s, x, silent) ==
    With(min_web_thickness_thick_web(s, x, silent), LAMBDA r1 :
    LET s1 == [r1.s EXCEPT !.design_flag2 = r1.ret]
    IN  IF ~r1.ret
        THEN Returned(Ok(Log(s1, silent,
                 "Web thickness is insufficient for 'Thick Web' philosophy."), FALSE))
        ELSE
        With(shear_capacity_laterally_supported_thick_web(s1, s1.fy, s1.gamma_m0,
                 s1.total_depth, s1.web_thickness, s1.top_flange_thickness,
                 s1.bottom_flange_thickness), LAMBDA r2 :
        LET s2 == [r2.s EXCEPT !.shearflag1 = r2.ret]
        IN  With(web_buckling_laterally_supported_thick_web(s2, x, s2.fy, s2.gamma_m0,
                     s2.total_depth, s2.web_thickness, s2.top_flange_thickness,
                     s2.bottom_flange_thickness, s2.E, s2.b1), LAMBDA r3 :
            LET s3 == [r3.s EXCEPT !.shearflag2 = r3.ret]
            IN  With(web_crippling_laterally_supported_thick_web(s3, x, s3.fy, s3.gamma_m0,
                         s3.web_thickness, s3.top_flange_thickness, s3.b1, silent),
                     LAMBDA r4 :
                LET s4 == [r4.s EXCEPT !.shearflag3 = r4.ret,
                                       !.shearchecks = s3.shearflag1 /\ s3.shearflag2
                                                       /\ r4.ret]
                IN  With(SelectedMomentCheck(s4, x, silent), LAMBDA r5 :
                    IF r3.raised THEN Returned(Raise(r3.s))
                    ELSE IF r5.raised THEN Returned(Raise(r5.s))
                    ELSE GoOn([r5.s EXCEPT !.momentchecks = r5.ret]))))))

\* lines 895-916: the thin-web checks, once the spacing is a positive number
ThinWebChecks(s, x, silent) ==
    With(IF s.stiffener_type # "transverse_only"
         THEN design_longitudinal_stiffeners(s, x, s.eff_depth, s.web_thickness, s.c,
                  s.epsilon, s.stiffener_type = "transverse_and_two_longitudinal_neutral",
                  silent)
         ELSE Ok(s, FALSE), LAMBDA rl :
    LET s1 == IF s.stiffener_type # "transverse_only"
              THEN [(IF rl.ret THEN rl.s
                     ELSE Log(rl.s, silent, "Longitudinal Stiffener Check failed"))
                       EXCEPT !.long_check = rl.ret]
              ELSE s
    IN  With(min_web_thickness_thick_web(s1, x, silent), LAMBDA r1 :
        LET s2 == [r1.s EXCEPT !.design_flag2 = r1.ret]
        IN  IF ~r1.ret
            THEN Returned(Ok(Log(s2, silent,
                     "Web thickness is insufficient for 'Thin Web' philosophy (with stiffeners)."),
                     FALSE))
            ELSE
            With(IF s2.shear_buckling_option = "Simple Post Critical"
                 THEN shear_buckling_check_simple_postcritical(s2, x, s2.eff_depth,
                          s2.total_depth, s2.top_flange_thickness,
                          s2.bottom_flange_thickness, s2.web_thickness,
                          s2.load.shear_force, s2.c)
                 ELSE shear_buckling_check_tension_field(s2, x, s2.eff_depth,
                          s2.total_depth, s2.top_flange_thickness,
                          s2.bottom_flange_thickness, s2.web_thickness, s2.c),
                 LAMBDA r2 :
            LET s3 == [r2.s EXCEPT !.shearflag1 = r2.ret]
            IN  With(shear_buckling_check_intermediate_stiffener(s3, x, s3.eff_depth,
                         s3.web_thickness, s3.c, s3.epsilon, s3.IntStiffThickness,
                         s3.IntStiffnerwidth, s3.load.shear_force, s3.gamma_m0, s3.fy,
                         s3.E), LAMBDA r3 :
                LET s4 == [r3.s EXCEPT !.shearflag2 = r3.ret,
                                       !.shearchecks = s3.shearflag1 /\ r3.ret]
                IN  With(SelectedMomentCheck(s4, x, silent), LAMBDA r5 :
                    IF r2.raised THEN Returned(Raise(r2.s))
                    ELSE IF r5.raised THEN Returned(Raise(r5.s))
                    ELSE GoOn([r5.s EXCEPT !.momentchecks = r5.ret]))))))

\* lines 881-884
StiffenerType(long_Stiffner) ==
    IF long_Stiffner = "Yes and 1 stiffener"
    THEN "transverse_and_one_longitudinal_compression"
    ELSE IF long_Stiffner = "Yes and 2 stiffeners"
    THEN "transverse_and_two_longitudinal_neutral"
    ELSE "transverse_only"

\* mutant: a missing or non-positive spacing is reported and the design
\* check goes on to the end panel
ThinWebBranch_GoesOn(s, x, silent) ==
    LET s1 == [s EXCEPT !.shear_ratio = I(0),
                        !.stiffener_type = StiffenerType(s.long_Stiffner)]
    IN  IF s1.c = NA THEN GoOn(Log(s1, silent, SpacingMissing))
        ELSE IF ~IsNumber(s1.c) THEN Returned(Raise(s1))
        ELSE IF RLe(s1.c, I(0)) THEN GoOn(Log(s1, silent, SpacingNonPositive))
        ELSE ThinWebChecks(s1, x, silent)

\* lines 880-916.  float(self.c) raises for None and for a string that is
\* no number.
ThinWebBranch(s, x, silent) ==
    LET s1 == [s EXCEPT !.shear_ratio = I(0),
                        !.stiffener_type = StiffenerType(s.long_Stiffner)]
    IN  IF s1.c = NA THEN Returned(Ok(Log(s1, silent, SpacingMissing), FALSE))
        ELSE IF ~IsNumber(s1.c) THEN Returned(Raise(s1))
        ELSE IF RLe(s1.c, I(0))
        THEN Returned(Ok(Log(s1, silent, SpacingNonPositive), FALSE))
        ELSE ThinWebChecks(s1, x, silent)

\* mutant: the longitudinal stiffener check enters the verdict
DesignCheckTail_LongCheck(s, x, silent) ==
    With(end_panel_stiffener_calc(s, x, s.top_flange_width, s.bottom_flange_width,
             s.web_thickness, s.fy, s.gamma_m0, s.eff_depth, s.top_flange_thickness,
             s.total_depth, s.effective_length, s.bottom_flange_thickness, s.E,
             s.epsilon, s.c, silent), LAMBDA re :
    LET s1 == IF ~re.ret
              THEN [Log(re.s, silent, "End Panel Stiffener Check failed")
                       EXCEPT !.shearchecks = FALSE, !.end_panel_passed = FALSE]
              ELSE [Log(re.s, silent, "End Panel Stiffener Check passed")
                       EXCEPT !.end_panel_passed = TRUE]
    IN  With(evaluate_deflection_kNm_mm(s1, x, s1.load.moment, s1.length, s1.E,
                 s1.loading_case, s1.deflection_criteria, silent), LAMBDA rd :
        LET s2 == [(IF rd.ret THEN rd.s ELSE Log(rd.s, silent, "Deflection Check failed"))
                      EXCEPT !.defl_check = rd.ret]
            all_checks_passed == s2.momentchecks /\ s2.shearchecks /\ s2.defl_check
                                 /\ s2.long_check
        IN  IF silent THEN Ok(s2, all_checks_passed)
            ELSE With(final_format(Log(s2, silent,
                          IF all_checks_passed THEN "Design is SAFE."
                          ELSE "Design FAILED. Check logs for details.")), LAMBDA rf :
                 IF rf.raised THEN Raise(rf.s)
                 ELSE Ok([rf.s EXCEPT !.formatted = TRUE,
                                      !.design_status = all_checks_passed],
                         all_checks_passed))))

\* mutant: the silent run writes its verdict to design_status too
DesignCheckTail_SilentStatus(s, x, silent) ==
    With(end_panel_stiffener_calc(s, x, s.top_flange_width, s.bottom_flange_width,
             s.web_thickness, s.fy, s.gamma_m0, s.eff_depth, s.top_flange_thickness,
             s.total_depth, s.effective_length, s.bottom_flange_thickness, s.E,
             s.epsilon, s.c, silent), LAMBDA re :
    LET s1 == IF ~re.ret
              THEN [Log(re.s, silent, "End Panel Stiffener Check failed")
                       EXCEPT !.shearchecks = FALSE, !.end_panel_passed = FALSE]
              ELSE [Log(re.s, silent, "End Panel Stiffener Check passed")
                       EXCEPT !.end_panel_passed = TRUE]
    IN  With(evaluate_deflection_kNm_mm(s1, x, s1.load.moment, s1.length, s1.E,
                 s1.loading_case, s1.deflection_criteria, silent), LAMBDA rd :
        LET s2 == [(IF rd.ret THEN rd.s ELSE Log(rd.s, silent, "Deflection Check failed"))
                      EXCEPT !.defl_check = rd.ret]
            all_checks_passed == s2.momentchecks /\ s2.shearchecks /\ s2.defl_check
        IN  IF silent
            THEN Ok([s2 EXCEPT !.design_status = all_checks_passed], all_checks_passed)
            ELSE With(final_format(Log(s2, silent,
                          IF all_checks_passed THEN "Design is SAFE."
                          ELSE "Design FAILED. Check logs for details.")), LAMBDA rf :
                 IF rf.raised THEN Raise(rf.s)
                 ELSE Ok([rf.s EXCEPT !.formatted = TRUE,
                                      !.design_status = all_checks_passed],
                         all_checks_passed))))

\* mutant: a failed end panel check leaves the shear verdict as it was
DesignCheckTail_NoDemotion(s, x, silent) ==
    With(end_panel_stiffener_calc(s, x, s.top_flange_width, s.bottom_flange_width,
             s.web_thickness, s.fy, s.gamma_m0, s.eff_depth, s.top_flange_thickness,
             s.total_depth, s.effective_length, s.bottom_flange_thickness, s.E,
             s.epsilon, s.c, silent), LAMBDA re :
    LET s1 == IF ~re.ret
              THEN [Log(re.s, silent, "End Panel Stiffener Check failed")
                       EXCEPT !.end_panel_passed = FALSE]
              ELSE [Log(re.s, silent, "End Panel Stiffener Check passed")
                       EXCEPT !.end_panel_passed = TRUE]
    IN  With(evaluate_deflection_kNm_mm(s1, x, s1.load.moment, s1.length, s1.E,
                 s1.loading_case, s1.deflection_criteria, silent), LAMBDA rd :
        LET s2 == [(IF rd.ret THEN rd.s ELSE Log(rd.s, silent, "Deflection Check failed"))
                      EXCEPT !.defl_check = rd.ret]
            all_checks_passed == s2.momentchecks /\ s2.shearchecks /\ s2.defl_check
        IN  IF silent THEN Ok(s2, all_checks_passed)
            ELSE With(final_format(Log(s2, silent,
                          IF all_checks_passed THEN "Design is SAFE."
                          ELSE "Design FAILED. Check logs for details.")), LAMBDA rf :
                 IF rf.raised THEN Raise(rf.s)
                 ELSE Ok([rf.s EXCEPT !.formatted = TRUE,
                                      !.design_status = all_checks_passed],
                         all_checks_passed))))

\* lines 918-942: end panel, deflection, verdict, formatted output
DesignCheckTail(s, x, silent) ==
    With(end_panel_stiffener_calc(s, x, s.top_flange_width, s.bottom_flange_width,
             s.web_thickness, s.fy, s.gamma_m0, s.eff_depth, s.top_flange_thickness,
             s.total_depth, s.effective_length, s.bottom_flange_thickness, s.E,
             s.epsilon, s.c, silent), LAMBDA re :
    LET s1 == IF ~re.ret
              THEN [Log(re.s, silent, "End Panel Stiffener Check failed")
                       EXCEPT !.shearchecks = FALSE, !.end_panel_passed = FALSE]
              ELSE [Log(re.s, silent, "End Panel Stiffener Check passed")
                       EXCEPT !.end_panel_passed = TRUE]
    IN  With(evaluate_deflection_kNm_mm(s1, x, s1.load.moment, s1.length, s1.E,
                 s1.loading_case, s1.deflection_criteria, silent), LAMBDA rd :
        LET s2 == [(IF rd.ret THEN rd.s ELSE Log(rd.s, silent, "Deflection Check failed"))
                      EXCEPT !.defl_check = rd.ret]
            all_checks_passed == s2.momentchecks /\ s2.shearchecks /\ s2.defl_check
        IN  IF silent THEN Ok(s2, all_checks_passed)
            ELSE With(final_format(Log(s2, silent,
                          IF all_checks_passed THEN "Design is SAFE."
                          ELSE "Design FAILED. Check logs for details.")), LAMBDA rf :
                 IF rf.raised THEN Raise(rf.s)
                 ELSE Ok([rf.s EXCEPT !.formatted = TRUE,
                                      !.design_status = all_checks_passed],
                         all_checks_passed))))

\* lines 821-942
design_check(s0, x, silent) ==
    LET s == [Enter(s0, "design_check") EXCEPT
                 !.design_flag = FALSE, !.design_flag2 = FALSE,
                 !.shearflag1 = FALSE, !.shearflag2 = FALSE, !.shearflag3 = FALSE,
                 !.shearchecks = FALSE, !.momentchecks = FALSE,
                 !.defl_check = FALSE, !.long_check = FALSE,
                 !.shear_chain = << >>]
    IN  IF RLe(s.eff_depth, I(0))
        THEN Ok(Log(s, silent,
                 "Invalid Geometry: Total Depth is less than combined flange thickness."),
                FALSE)
        ELSE
        With(section_classification(s, x), LAMBDA rc :
        LET s1 == [rc.s EXCEPT !.design_flag = rc.ret]
        IN  IF rc.raised THEN Raise(rc.s)
            ELSE IF ~rc.ret
            THEN Ok(Log(s1, silent,
                     "Slender section not allowed for 'Thick Web' philosophy."), FALSE)
            ELSE
            With(FlangeWarnings(s1, silent), LAMBDA w :
            IF w.returned THEN [s |-> w.s, ret |-> w.ret, raised |-> w.raised]
            ELSE
            With(beta_value(w.s, x, w.s.section_class), LAMBDA rb :
            With(IF rb.s.web_philosophy = ThickWeb
                 THEN ThickWebBranch(rb.s, x, silent)
                 ELSE ThinWebBranch(rb.s, x, silent), LAMBDA b :
            IF b.returned THEN [s |-> b.s, ret |-> b.ret, raised |-> b.raised]
            ELSE DesignCheckTail(b.s, x, silent)))))

-----------------------------------------------------------------------------
(* The optimizer: particle layout, objective with penalty, rounding.       *)

\* lines 789-798
build_variable_structure(is_thick_web, is_symmetric) ==
    (IF is_symmetric THEN <<"tf", "tw", "bf", "D">>
     ELSE <<"tf_top", "tf_bot", "tw", "bf_top", "bf_bot", "D">>)
    \o (IF ~is_thick_web THEN <<"c", "t_stiff">> ELSE << >>)

\* lines 801-808
bounds_map(v) ==
    CASE v \in {"tf", "tf_top", "tf_bot"} -> <<6, 100>>
      [] v = "tw" -> <<6, 40>>
      [] v \in {"bf", "bf_top", "bf_bot"} -> <<100, 1000>>
      [] v = "D" -> <<200, 3000>>
      [] v = "c" -> <<200, 3000>>
      [] v = "t_stiff" -> <<6, 40>>

\* lines 800-811
get_bounds(variable_list) ==
    [lb |-> [i \in 1..Len(variable_list) |-> I(bounds_map(variable_list[i])[1])],
     ub |-> [i \in 1..Len(variable_list) |-> I(bounds_map(variable_list[i])[2])]]

\* np.clip(particle, lb, ub), line 1014
Clip(particle, b) ==
    [i \in 1..Len(particle) |-> RMin(RMax(particle[i], b.lb[i]), b.ub[i])]

\* generate_first_particle with the web thickness ahead of the flange
\* thicknesses, an order build_variable_structure does not use
generate_first_particle_WebFirst(s, x, L, M, fy, is_thick_web, is_symmetric) ==
    LET D_final == RMax(RMax(RDiv(L, I(25)), x.d_opt), I(200))
        bf == RMul(R(3, 10), D_final)
        e  == s.epsilon
        tf == RMax(RMax(RDiv(bf, I(24)), RDiv(bf, RMul(R(84, 10), e))), I(6))
        d0 == RSub(D_final, RMul(I(2), tf))
        d  == IF RLe(d0, I(0)) THEN RMul(D_final, R(8, 10)) ELSE d0
        tw == IF is_thick_web
              THEN RMax(RMax(RDiv(d, I(200)), RDiv(d, RMul(I(84), e))), I(8))
              ELSE RMax(RMax(RDiv(d, I(200)), RDiv(d, RMul(I(105), e))), I(8))
    IN  (IF is_symmetric THEN <<tw, tf, bf, D_final>>
         ELSE <<tw, tf, tf, bf, bf, D_final>>)
        \o (IF is_thick_web THEN << >> ELSE <<d, I(6)>>)

\* lines 754-787.  x.d_opt is the cube root ((M * k) / fy) ** (1/3);
\* e = sqrt(250 / fy) is the object's epsilon.
generate_first_particle(s, x, L, M, fy, is_thick_web, is_symmetric) ==
    LET D_empirical == RDiv(L, I(25))
        D_final == RMax(RMax(D_empirical, x.d_opt), I(200))
        bf == RMul(R(3, 10), D_final)
        e  == s.epsilon
        tf == RMax(RMax(RDiv(bf, I(24)), RDiv(bf, RMul(R(84, 10), e))), I(6))
        d0 == RSub(D_final, RMul(I(2), tf))
        d  == IF RLe(d0, I(0)) THEN RMul(D_final, R(8, 10)) ELSE d0
        tw == IF is_thick_web
              THEN RMax(RMax(RDiv(d, I(200)), RDiv(d, RMul(I(84), e))), I(8))
              ELSE RMax(RMax(RDiv(d, I(200)), RDiv(d, RMul(I(105), e))), I(8))
        c  == d
        t_stiff == I(6)
    IN  (IF is_symmetric THEN <<tf, tw, bf, D_final>>
         ELSE <<tf, tf, tw, bf, bf, D_final>>)
        \o (IF is_thick_web THEN << >> ELSE <<c, t_stiff>>)

Has(variable_list, name) == \E i \in 1..Len(variable_list) : variable_list[i] = name

\* dict(zip(variable_list, particle))[name]; None when the name is absent
Component(particle, variable_list, name) ==
    IF Has(variable_list, name)
    THEN particle[CHOOSE i \in 1..Len(variable_list) : variable_list[i] = name]
    ELSE NoneR

\* lines 813-852: the Section the particle stands for, and the object with
\* the particle's dimensions written to it
assign_particle_to_section(s0, particle, variable_list) ==
    LET s   == Enter(s0, "assign_particle_to_section")
        sym == Has(variable_list, "tf")
        sec == [tf_top |-> Component(particle, variable_list, IF sym THEN "tf" ELSE "tf_top"),
                tf_bot |-> Component(particle, variable_list, IF sym THEN "tf" ELSE "tf_bot"),
                tw     |-> Component(particle, variable_list, "tw"),
                bf_top |-> Component(particle, variable_list, IF sym THEN "bf" ELSE "bf_top"),
                bf_bot |-> Component(particle, variable_list, IF sym THEN "bf" ELSE "bf_bot"),
                D      |-> Component(particle, variable_list, "D"),
                c      |-> Component(particle, variable_list, "c"),
                t_stiff |-> Component(particle, variable_list, "t_stiff")]
        stiffw == RSub(RSub(RMin(sec.bf_top, sec.bf_bot), RDiv(sec.tw, I(2))), I(10))
        hasc == Has(variable_list, "c")
    IN  [sec |-> sec,
         s |-> [s EXCEPT
                  !.top_flange_thickness = sec.tf_top,
                  !.bottom_flange_thickness = sec.tf_bot,
                  !.web_thickness = sec.tw,
                  !.top_flange_width = sec.bf_top,
                  !.bottom_flange_width = sec.bf_bot,
                  !.total_depth = sec.D,
                  !.thickness_is_str = FALSE,
                  !.eff_depth = IF RLt(RAdd(sec.tf_top, sec.tf_bot), sec.D)
                                THEN RSub(RSub(sec.D, sec.tf_top), sec.tf_bot) ELSE I(0),
                  !.IntStiffnerwidth = IF RLt(I(0), sec.tw) THEN stiffw ELSE I(0),
                  !.end_stiffwidth = IF RLt(I(0), sec.tw) THEN stiffw ELSE I(0),
                  !.c = IF hasc THEN sec.c ELSE NA,
                  !.IntStiffThickness = IF hasc THEN sec.t_stiff ELSE I(0)]]

\* 7.85e-6 kg per mm^3
Density == R(785, 100000000)

\* lines 945-985: mass + penalty of the particle, from a silent design_check
objective_function_with_penalty(s0, x, particle) ==
    With(assign_particle_to_section(Enter(s0, "_objective_function_with_penalty"),
                                    particle, s0.optimization_variable_list), LAMBDA a :
    LET sec == a.sec
        height == RSub(RSub(sec.D, sec.tf_top), sec.tf_bot)
        area == RAdd(RAdd(RMul(sec.bf_top, sec.tf_top), RMul(sec.bf_bot, sec.tf_bot)),
                     RMul(sec.tw, height))
        mass0 == RMul(RMul(area, a.s.length), Density)
        width_stiff == RSub(RSub(RMin(sec.bf_top, sec.bf_bot), RDiv(sec.tw, I(2))), I(10))
    IN  With(IF ~a.s.optimization_is_thick_web /\ RLt(I(0), sec.c)
                /\ RLt(I(0), width_stiff) /\ RLt(I(0), height)
             THEN LET n_stiff == RMax(RSub(RDiv(a.s.length, sec.c), I(1)), I(0))
                      vol_stiff == RMul(RMul(RMul(RMul(n_stiff, I(2)), width_stiff),
                                             sec.t_stiff), height)
                  IN  RAdd(mass0, RMul(vol_stiff, Density))
             ELSE mass0, LAMBDA mass :
        With(design_check(a.s, x, TRUE), LAMBDA r :
        With(RMax(RMax(r.s.moment_ratio, r.s.shear_ratio), r.s.deflection_ratio),
             LAMBDA max_ratio :
        LET penalty == IF r.ret THEN I(0)
                       ELSE IF RLt(I(1), max_ratio)
                       THEN RMul(RSub(max_ratio, I(1)), I(1000000))
                       ELSE I(1000000)
        IN  IF r.raised
            THEN [s |-> r.s, ret |-> FALSE, raised |-> TRUE, val |-> NoneR,
                  penalty |-> NoneR]
            ELSE [s |-> r.s, ret |-> r.ret, raised |-> FALSE,
                  val |-> RAdd(mass, penalty), penalty |-> penalty]))))

\* lines 988-1014: the context of the search and the clipped seed particle
OptimizationContext(s0, x, is_thick_web, is_symmetric) ==
    LET s  == Enter(s0, "optimized_method")
        vl == build_variable_structure(is_thick_web, is_symmetric)
        seed == generate_first_particle(s, x, s.length, s.load.moment, s.fy,
                                        is_thick_web, is_symmetric)
    IN  [s EXCEPT !.optimization_variable_list = vl,
                  !.optimization_design_dictionary = TRUE,
                  !.optimization_is_thick_web = is_thick_web,
                  !.optimization_is_symmetric = is_symmetric,
                  !.initial_particle = Clip(seed, get_bounds(vl))]

\* math.ceil of a rational
Ceil(a) == -((-a.n) \div a.d)

\* lines 1039-1040
ceil_to_nearest(xv, multiple) == I(Ceil(RDiv(xv, I(multiple))) * multiple)

\* next((t for t in lst if float(t) >= opt), lst[-1]) from entry i on,
\* lines 1044-1066
RECURSIVE NextAtLeast(_, _, _)
NextAtLeast(lst, opt, i) ==
    IF i > Len(lst) THEN I(lst[Len(lst)])
    ELSE IF RLe(opt, I(lst[i])) THEN I(lst[i])
    ELSE NextAtLeast(lst, opt, i + 1)

\* lines 1034-1068: the rounded design written to the object.  The
\* thickness fields receive the catalog entries themselves.
RoundedDesign(s, best_pos) ==
    LET vl  == s.optimization_variable_list
        sym == s.optimization_is_symmetric
        opt(name) == Component(best_pos, vl, name)
        s1 == [s EXCEPT
                 !.best_design_var = best_pos,
                 !.thickness_is_str = s.catalog_strings,
                 !.bottom_flange_thickness =
                     IF sym THEN NextAtLeast(s.top_flange_thickness_list, opt("tf"), 1)
                     ELSE NextAtLeast(s.bottom_flange_thickness_list, opt("tf_bot"), 1),
                 !.top_flange_thickness =
                     NextAtLeast(s.top_flange_thickness_list,
                                 opt(IF sym THEN "tf" ELSE "tf_top"), 1),
                 !.web_thickness = NextAtLeast(s.web_thickness_list, opt("tw"), 1),
                 !.bottom_flange_width =
                     ceil_to_nearest(opt(IF sym THEN "bf" ELSE "bf_bot"), 10),
                 !.top_flange_width =
                     ceil_to_nearest(opt(IF sym THEN "bf" ELSE "bf_top"), 10),
                 !.total_depth = ceil_to_nearest(opt("D"), 25)]
    IN  IF s.optimization_is_thick_web THEN s1
        ELSE [s1 EXCEPT
                 !.IntStiffThickness = NextAtLeast(s.int_thickness_list, opt("t_stiff"), 1),
                 !.c = ceil_to_nearest(opt("c"), 10)]

\* lines 1034-1080: rounding, the final non-silent design_check, and the
\* context cleared.  lst[-1] of an empty stiffener list raises IndexError.
optimized_method_finish(s0, x, best_pos) ==
    IF ~s0.optimization_is_thick_web /\ Len(s0.int_thickness_list) = 0
    THEN Raise(s0)
    ELSE With(design_check(RoundedDesign(s0, best_pos), x, FALSE), LAMBDA r :
         IF r.raised THEN Raise(r.s)
         ELSE Ok([r.s EXCEPT !.optimization_variable_list = << >>,
                             !.optimization_design_dictionary = FALSE], r.ret))

-----------------------------------------------------------------------------
(* Inputs.  A design dictionary as the input dock supplies it (lengths in  *)
(* mm), and the values the section-property and IS800 library returns for  *)
(* a geometry.                                                             *)

Catalog == <<8, 10, 12>>

\* a 40 x 2 web with 30 x 4 flanges on a 500 span: V_d = 25.6, Md = 3382.4
BaseDD ==
    [ design_type |-> "Customized",
      D |-> 40, bf_top |-> 30, bf_bot |-> 30,
      tw_list |-> <<2>>, tf_top_list |-> <<4>>, tf_bot_list |-> <<4>>,
      int_list |-> Catalog, long_list |-> Catalog,
      max_defl |-> NA,
      loading_case |-> KEY_DISP_UDL_PIN_PIN_PG,
      warping |-> WarpingNotRestrained,
      support_type |-> "Major Laterally Supported",
      length |-> 500,
      web_philosophy |-> ThickWeb,
      b1 |-> 20,
      c |-> NA,
      long_Stiffner |-> "No",
      shear_buckling_option |-> "Simple Post Critical",
      shear |-> I(10), moment |-> I(2000),
      is_symmetric |-> TRUE,
      catalog_strings |-> TRUE ]

BaseExt ==
    [ flange_class_top |-> KEY_Plastic,
      flange_class_bottom |-> KEY_Plastic,
      web_class |-> KEY_Plastic,
      effective_length |-> I(500),
      Zp |-> I(4832), Ze |-> I(4161),
      web_thickness_ok |-> TRUE,
      Iy |-> I(18000), M_cr |-> I(9000), Md_lt |-> I(2500),
      tau_b |-> R(2, 5), V_tf |-> I(28),
      fcd_web |-> R(1, 2), fcd_end |-> R(3, 5), fcd_int |-> R(3, 5),
      sqrt_fyE |-> R(2178, 100),
      d_na |-> I(20),
      Iz |-> I(83200),
      d_opt |-> I(300),
      weld_top |-> [min |-> I(3), max |-> R(28, 5), calc |-> I(0)],
      weld_bot |-> [min |-> I(3), max |-> R(28, 5), calc |-> I(0)],
      weld_st |-> [min |-> I(3), max |-> R(28, 5), calc |-> I(0)] ]

\* val is the value and penalty the penalty term of an objective evaluation
NoCall == [op |-> "none", ret |-> FALSE, raised |-> FALSE, val |-> NoneR, penalty |-> NoneR]
Called(name, r) ==
    [op |-> name, ret |-> r.ret, raised |-> r.raised, val |-> NoneR, penalty |-> NoneR]

-----------------------------------------------------------------------------
(* SpecClassify: section_classification applied to every triple of         *)
(* component classes, under both web philosophies.                         *)

InitClassify ==
    /\ pc = "classify"
    /\ call = NoCall
    /\ \E wp \in {ThickWeb, ThinWeb} :
          self = InitSelf([BaseDD EXCEPT !.web_philosophy = wp])
    /\ \E ct \in Classes, cw \in Classes, cb \in Classes :
          ext = [BaseExt EXCEPT !.flange_class_top = ct, !.web_class = cw,
                                !.flange_class_bottom = cb]

Classify ==
    /\ pc = "classify"
    /\ LET r == section_classification(self, ext)
       IN  /\ self' = r.s
           /\ call' = Called("section_classification", r)
    /\ pc' = "classified"
    /\ UNCHANGED ext

SpecClassify == InitClassify /\ [][Classify]_vars

\* C3: the combined class is Slender if any component is Slender and
\* otherwise the least ductile of the three components, for every triple.
C3_WorstOfThree ==
    pc = "classified" =>
        self.section_class =
            Worse(ext.flange_class_top, Worse(ext.web_class, ext.flange_class_bottom))

C3_Witness ==
    /\ pc = "classified"
    /\ ext.flange_class_top = KEY_Compact
    /\ ext.web_class = KEY_Plastic
    /\ ext.flange_class_bottom = KEY_SemiCompact
    /\ self.section_class = KEY_SemiCompact

\* C4: improving any component class (the others the same or better) never
\* makes the combined class worse.
C4_Monotonic ==
    pc = "classified" =>
        \A ct \in Classes, cw \in Classes, cb \in Classes :
            (/\ Rank(ct) <= Rank(ext.flange_class_top)
             /\ Rank(cw) <= Rank(ext.web_class)
             /\ Rank(cb) <= Rank(ext.flange_class_bottom))
            => Rank(CombineClass(ct, cw, cb)) <= Rank(self.section_class)

C4_Witness ==
    /\ pc = "classified"
    /\ self.section_class = KEY_Compact
    /\ ext.flange_class_top = KEY_Compact
    /\ ext.web_class = KEY_Compact
    /\ ext.flange_class_bottom = KEY_Plastic

-----------------------------------------------------------------------------
(* SpecChecks: each check of the capacity suite applied once, with the     *)
(* arguments design_check passes, to objects that have been through        *)
(* section_classification and beta_value.  The inputs cover a web of       *)
(* negative, zero and positive clear depth, and an empty and a non-empty   *)
(* stiffener thickness catalog.                                            *)

Prepared(dd, x) ==
    LET s1 == section_classification(InitSelf(dd), x).s
    IN  [beta_value(s1, x, s1.section_class).s EXCEPT !.ran = << >>]

CheckDepths == {4, 8, 40}
CheckShears == {I(0), R(1664, 100), R(1792, 100), I(40), I(80)}
CheckModuli == {<<4832, 4161>>, <<4832, 3900>>}
CheckClasses == {KEY_Plastic, KEY_SemiCompact}
CheckCriteria == {NA, Unparseable, I(0), I(-5), I(300)}
CheckIz == {0, 83200}
CheckE == {I(0), E_STEEL}
CheckSpacing == {NA, I(48), I(2)}
CheckCatalogs == {<< >>, Catalog}

InitChecks ==
    /\ pc = "ready"
    /\ call = NoCall
    /\ \E zz \in CheckModuli, cl \in CheckClasses, iz \in CheckIz :
          ext = [BaseExt EXCEPT !.Zp = I(zz[1]), !.Ze = I(zz[2]),
                                !.flange_class_top = cl, !.Iz = I(iz)]
    /\ \E D \in CheckDepths, V \in CheckShears, cr \in CheckCriteria,
          E \in CheckE, c \in CheckSpacing, cat \in CheckCatalogs :
          self = [Prepared([BaseDD EXCEPT !.D = D, !.shear = V, !.max_defl = cr, !.c = c,
                                          !.int_list = cat], ext)
                    EXCEPT !.E = E]

Checked(name, r) ==
    /\ self' = r.s
    /\ call' = Called(name, r)
    /\ pc' = "checked"
    /\ UNCHANGED ext

CheckMomentSupported ==
    /\ pc = "ready"
    /\ Checked("moment_capacity_laterally_supported",
          moment_capacity_laterally_supported(self, self.load.shear_force,
              self.plast_sec_mod_z, self.elast_sec_mod_z, self.fy, self.gamma_m0,
              self.total_depth, self.web_thickness, self.top_flange_thickness,
              self.bottom_flange_thickness, self.section_class))

CheckMomentUnsupported ==
    /\ pc = "ready"
    /\ Checked("moment_capacity_laterally_unsupported",
          moment_capacity_laterally_unsupported(self, ext, self.E, self.effective_length,
              self.total_depth, self.top_flange_thickness, self.bottom_flange_thickness,
              self.top_flange_width, self.bottom_flange_width, self.web_thickness,
              self.loading_case, self.gamma_m0, self.fy, self.load.shear_force, FALSE))

CheckShearThick ==
    /\ pc = "ready"
    /\ Checked("shear_capacity_laterally_supported_thick_web",
          shear_capacity_laterally_supported_thick_web(self, self.fy, self.gamma_m0,
              self.total_depth, self.web_thickness, self.top_flange_thickness,
              self.bottom_flange_thickness))

CheckSimplePostcritical ==
    /\ pc = "ready"
    /\ IsNumber(self.c)
    /\ Checked("shear_buckling_check_simple_postcritical",
          shear_buckling_check_simple_postcritical(self, ext, self.eff_depth,
              self.total_depth, self.top_flange_thickness, self.bottom_flange_thickness,
              self.web_thickness, self.load.shear_force, self.c))

CheckTensionField ==
    /\ pc = "ready"
    /\ IsNumber(self.c)
    /\ Checked("shear_buckling_check_tension_field",
          shear_buckling_check_tension_field(self, ext, self.eff_depth,
              self.total_depth, self.top_flange_thickness, self.bottom_flange_thickness,
              self.web_thickness, self.c))

CheckWebBuckling ==
    /\ pc = "ready"
    /\ Checked("web_buckling_laterally_supported_thick_web",
          web_buckling_laterally_supported_thick_web(self, ext, self.fy, self.gamma_m0,
              self.total_depth, self.web_thickness, self.top_flange_thickness,
              self.bottom_flange_thickness, self.E, self.b1))

CheckWebCrippling ==
    /\ pc = "ready"
    /\ Checked("web_crippling_laterally_supported_thick_web",
          web_crippling_laterally_supported_thick_web(self, ext, self.fy, self.gamma_m0,
              self.web_thickness, self.top_flange_thickness, self.b1, FALSE))

CheckEndPanel ==
    /\ pc = "ready"
    /\ Checked("end_panel_stiffener_calc",
          end_panel_stiffener_calc(self, ext, self.top_flange_width,
              self.bottom_flange_width, self.web_thickness, self.fy, self.gamma_m0,
              self.eff_depth, self.top_flange_thickness, self.total_depth,
              self.effective_length, self.bottom_flange_thickness, self.E,
              self.epsilon, self.c, FALSE))

CheckIntermediate ==
    /\ pc = "ready"
    /\ IsNumber(self.c)
    /\ Checked("shear_buckling_check_intermediate_stiffener",
          shear_buckling_check_intermediate_stiffener(self, ext, self.eff_depth,
              self.web_thickness, self.c, self.epsilon, self.IntStiffThickness,
              self.IntStiffnerwidth, self.load.shear_force, self.gamma_m0, self.fy, self.E))

CheckLongitudinal ==
    /\ pc = "ready"
    /\ IsNumber(self.c)
    /\ Checked("design_longitudinal_stiffeners",
          design_longitudinal_stiffeners(self, ext, self.eff_depth, self.web_thickness,
              self.c, self.epsilon, FALSE, FALSE))

CheckDeflection ==
    /\ pc = "ready"
    /\ Checked("evaluate_deflection_kNm_mm",
          evaluate_deflection_kNm_mm(self, ext, self.load.moment, self.length, self.E,
              self.loading_case, self.deflection_criteria, FALSE))

NextChecks ==
    \/ CheckMomentSupported
    \/ CheckMomentUnsupported
    \/ CheckShearThick
    \/ CheckSimplePostcritical
    \/ CheckTensionField
    \/ CheckWebBuckling
    \/ CheckWebCrippling
    \/ CheckEndPanel
    \/ CheckIntermediate
    \/ CheckLongitudinal
    \/ CheckDeflection

SpecChecks == InitChecks /\ [][NextChecks]_vars

-----------------------------------------------------------------------------
(* SpecCases: the unsupported moment check and the deflection check        *)
(* applied to objects whose loading case and warping restraint are each    *)
(* one of the values the code names or a value it does not name.           *)

UnknownCase == "Cantilever"
UnknownWarping == "Not specified"
CaseInputs == LoadingCases \cup {UnknownCase}
WarpingInputs == WarpingRestraints \cup {UnknownWarping}
CaseCriteria == {NA, I(300), I(2000)}
CaseShears == {I(10), I(40)}

InitCases ==
    /\ pc = "ready"
    /\ call = NoCall
    /\ ext = BaseExt
    /\ \E lc \in CaseInputs, w \in WarpingInputs, cr \in CaseCriteria, V \in CaseShears :
          self = Prepared([BaseDD EXCEPT !.loading_case = lc, !.warping = w,
                                         !.max_defl = cr, !.shear = V,
                                         !.support_type = "Major Laterally Unsupported"],
                          ext)

NextCases ==
    \/ CheckMomentUnsupported
    \/ CheckDeflection

SpecCases == InitCases /\ [][NextCases]_vars

-----------------------------------------------------------------------------
(* Weld design, design_checks.py lines 672-750.  For a joint, x.weld_*     *)
(* holds what the library returns for its two plate thicknesses: min is    *)
(* cl_10_5_2_3_min_weld_size, max is cl_10_5_3_1_max_weld_throat_thickness *)
(* and calc is the leg weld_leg_from_q_with_cl10 derives from a shear flow *)
(* that is not zero.                                                       *)

\* round_up(value, 1): the smallest whole size that is at least value
round_up(value) == I(Ceil(value))

\* lines 673 and 712-729: shear_stress_unsym_I yields no flow for h_w <= 0
design_welds_with_strength_web_to_flange(x, V_ed, b_ft, t_ft, b_fb, t_fb, t_w, h_w) ==
    LET a_top_calc == IF RLe(h_w, I(0)) THEN I(0) ELSE x.weld_top.calc
        a_bot_calc == IF RLe(h_w, I(0)) THEN I(0) ELSE x.weld_bot.calc
        a_top == round_up(RMax(a_top_calc, x.weld_top.min))
        a_bot == round_up(RMax(a_bot_calc, x.weld_bot.min))
    IN  <<RMin(a_top, x.weld_top.max), RMin(a_bot, x.weld_bot.max)>>

\* lines 731-750
weld_for_end_stiffener(x, t_st, b_st, V_ed, V_unstf, D, t_ft, t_fb, tw) ==
    LET L_weld == RSub(RSub(D, t_ft), t_fb)
    IN  IF RLe(L_weld, I(0)) THEN I(0)
        ELSE IF RLe(b_st, I(0)) THEN I(0)
        ELSE RMin(round_up(RMax(x.weld_st.calc, x.weld_st.min)), x.weld_st.max)

(* SpecWelds: the two weld designs applied to sections of zero and         *)
(* positive web depth, with and without a stiffener width, for the leg     *)
(* sizes and the permissible sizes listed.                                 *)

WeldLimits == {<<I(3), R(28, 5)>>, <<I(6), I(6)>>}
WeldLegs == {I(0), R(21, 5), I(20)}
WeldDepths == {8, 40}
WeldStiffenerWidths == {I(0), I(19)}

WeldJoints == { [min |-> lim[1], max |-> lim[2], calc |-> leg] : lim \in WeldLimits, leg \in WeldLegs }

InitWelds ==
    /\ pc = "ready"
    /\ call = NoCall
    /\ \E jt \in WeldJoints, jb \in WeldJoints, js \in WeldJoints :
          ext = [BaseExt EXCEPT !.weld_top = jt, !.weld_bot = jb, !.weld_st = js]
    /\ \E D \in WeldDepths, b_st \in WeldStiffenerWidths :
          self = [Prepared([BaseDD EXCEPT !.D = D], ext) EXCEPT !.end_stiffwidth = b_st,
                                                                !.end_stiffthickness = I(8)]

WeldWebToFlange ==
    /\ pc = "ready"
    /\ call' = [NoCall EXCEPT !.op = "design_welds_with_strength_web_to_flange",
                              !.val = design_welds_with_strength_web_to_flange(ext,
                                          self.load.shear_force, self.top_flange_width,
                                          self.top_flange_thickness, self.bottom_flange_width,
                                          self.bottom_flange_thickness, self.web_thickness,
                                          self.eff_depth)]
    /\ pc' = "checked"
    /\ UNCHANGED <<self, ext>>

WeldEndStiffener ==
    /\ pc = "ready"
    /\ call' = [NoCall EXCEPT !.op = "weld_for_end_stiffener",
                              !.val = weld_for_end_stiffener(ext, self.end_stiffthickness,
                                          self.end_stiffwidth, self.load.shear_force,
                                          self.V_d, self.total_depth,
                                          self.top_flange_thickness,
                                          self.bottom_flange_thickness, self.web_thickness)]
    /\ pc' = "checked"
    /\ UNCHANGED <<self, ext>>

NextWelds ==
    \/ WeldWebToFlange
    \/ WeldEndStiffener

SpecWelds == InitWelds /\ [][NextWelds]_vars

InRan(name) == \E i \in 1..Len(self.ran) : self.ran[i] = name

MomentChecks ==
    {"moment_capacity_laterally_supported", "moment_capacity_laterally_unsupported"}

\* D - tf_top - tf_bot of the object
WebDepth(s) == RSub(RSub(s.total_depth, s.top_flange_thickness), s.bottom_flange_thickness)

\* the utilization ratio a check writes; web crippling and the longitudinal
\* stiffener check write none
OwnedRatioFails(op) ==
    CASE op \in MomentChecks -> RLe(FailRatio, self.moment_ratio)
      [] op \in {"shear_capacity_laterally_supported_thick_web",
                 "shear_buckling_check_simple_postcritical",
                 "shear_buckling_check_tension_field",
                 "shear_buckling_check_intermediate_stiffener"}
            -> RLe(FailRatio, self.shear_ratio)
      [] op = "web_buckling_laterally_supported_thick_web"
            -> RLe(FailRatio, self.web_buckling_ratio)
      [] op = "end_panel_stiffener_calc" -> RLe(FailRatio, self.endshear_ratio)
      [] op = "evaluate_deflection_kNm_mm" -> RLe(FailRatio, self.deflection_ratio)
      [] OTHER -> TRUE

\* C1: for every geometry with D - tf_top - tf_bot <= 0 each check returns
\* fail, leaves the ratio it owns at >= 2.0 and does not raise.
C1_InvalidGeometryFails ==
    (pc = "checked" /\ RLe(WebDepth(self), I(0)))
        => (~call.raised /\ call.ret = FALSE /\ OwnedRatioFails(call.op))

\* C5: with an applied shear of 0 the moment check never evaluates the
\* high-shear interaction, for every geometry.
C5_ZeroShearIsLowShear ==
    (pc = "checked" /\ call.op \in MomentChecks /\ RIsZero(self.load.shear_force))
        => (~InRan("calc_Mdv") /\ ~InRan("calc_Mdv_lat_unsupported"))

\* C6: with positive web area and V just above 0.6 * V_d (here up to
\* 0.7 * V_d) the high-shear design moment is strictly smaller than the
\* low-shear design bending strength of the same geometry.
C6_InteractionReduces ==
    (/\ pc = "checked"
     /\ call.op = "moment_capacity_laterally_supported"
     /\ ~call.raised
     /\ RLt(I(0), RMul(WebDepth(self), self.web_thickness))
     /\ HighShear(self.load.shear_force, self.V_d)
     /\ RLe(self.load.shear_force, RMul(R(7, 10), self.V_d)))
        => RLt(self.Md,
               cl_8_2_1_2_design_bending_strength(self.section_class,
                   self.plast_sec_mod_z, self.elast_sec_mod_z, self.fy, self.gamma_m0))

NoCriterion(criteria) == criteria = NA \/ (IsNumber(criteria) /\ RLe(criteria, I(0)))

\* C7 as stated: with criteria 'NA' or a non-positive number the deflection
\* check passes with ratio 0 whatever the section, second moment of area 0
\* included.
C7_Original ==
    (pc = "checked" /\ call.op = "evaluate_deflection_kNm_mm"
        /\ NoCriterion(self.deflection_criteria))
        => (~call.raised /\ call.ret = TRUE /\ RIsZero(self.deflection_ratio))

\* C7 amended: with criteria 'NA' or a non-positive number the deflection
\* check passes with ratio 0 whatever the moment, span and modulus, provided
\* the second moment of area is not 0; when it is 0 the check fails with
\* ratio 2.0 before it looks at the criterion.
C7_NoCriterionPasses ==
    (pc = "checked" /\ call.op = "evaluate_deflection_kNm_mm"
        /\ NoCriterion(self.deflection_criteria))
        => /\ ~call.raised
           /\ IF RIsZero(ext.Iz)
              THEN call.ret = FALSE /\ self.deflection_ratio = FailRatio
              ELSE call.ret = TRUE /\ RIsZero(self.deflection_ratio)

C7_Witness ==
    /\ pc = "checked"
    /\ call.op = "evaluate_deflection_kNm_mm"
    /\ self.deflection_criteria = I(-5)
    /\ RIsZero(self.E)
    /\ ~RIsZero(ext.Iz)
    /\ call.ret = TRUE
    /\ RIsZero(self.deflection_ratio)

-----------------------------------------------------------------------------
(* Spec: set_input_values on a fresh object.  A Customized dictionary runs *)
(* design_check once; an Optimized dictionary starts the swarm search,     *)
(* which calls the objective on particles inside the bounds and hands one  *)
(* of them back as the best position, which is rounded and checked.        *)

\* the object after __init__, lines 74-86
Constructed ==
    [ design_status |-> FALSE,
      optimization_variable_list |-> << >>,
      optimization_design_dictionary |-> FALSE,
      optimization_is_thick_web |-> FALSE,
      optimization_is_symmetric |-> FALSE ]

InputSpacing == {NA, I(0), I(-5), I(48)}
InputDepths == {4, 8, 40}
InputLongStiffner == {"No", "Yes and 1 stiffener", "Yes and 2 stiffeners"}
InputCriteria == {NA, I(300)}

\* shear forces below and above the buckling resistance 25.6 of the web
InputShears == {I(10), R(1664, 100), I(40)}

CustomizedDictionaries ==
    { [BaseDD EXCEPT !.web_philosophy = wp, !.D = D, !.c = c, !.long_Stiffner = ls,
                     !.shear_buckling_option = sb, !.support_type = st,
                     !.shear = V, !.max_defl = cr] :
        wp \in {ThickWeb, ThinWeb}, D \in InputDepths, c \in InputSpacing,
        ls \in InputLongStiffner, sb \in {"Simple Post Critical", "Tension Field"},
        st \in {"Major Laterally Supported", "Major Laterally Unsupported"},
        V \in InputShears, cr \in InputCriteria }

\* design compressive stress of the end stiffener strut: one that lets a
\* catalog thickness pass and one that exhausts the catalog
InputFcdEnd == {R(3, 5), R(1, 100)}

\* what the library returns for the customized geometry
CustomizedExt ==
    { [BaseExt EXCEPT !.web_class = cl, !.web_thickness_ok = ok, !.fcd_end = fcd] :
        cl \in {KEY_Plastic, Slender}, ok \in BOOLEAN, fcd \in InputFcdEnd }

InputCatalogs == {<<8, 10, 12>>, <<8, 16, 40, 100>>}

\* design moments below and above the bending strength 217000 of OptimizedExt
InputMoments == {I(150000), I(325500)}

OptimizedDictionaries ==
    { [BaseDD EXCEPT !.design_type = "Optimized", !.web_philosophy = wp,
                     !.is_symmetric = sym, !.catalog_strings = str,
                     !.tw_list = cat, !.tf_top_list = cat, !.tf_bot_list = cat,
                     !.int_list = cat, !.length = 10000,
                     !.shear = I(100), !.moment = M] :
        wp \in {ThickWeb, ThinWeb}, sym \in BOOLEAN, str \in BOOLEAN,
        cat \in InputCatalogs, M \in InputMoments }

\* a 220 x 10 web with 100 x 10 flanges: Zp = 310000, Ze = 261212
OptimizedExt ==
    { [BaseExt EXCEPT !.Zp = I(310000), !.Ze = I(261212), !.Iz = I(28800000),
                      !.effective_length = I(10000), !.d_opt = I(300),
                      !.web_thickness_ok = ok, !.fcd_end = fcd] :
        ok \in BOOLEAN, fcd \in InputFcdEnd }

\* best positions and evaluated particles, as designs inside the bounds of
\* get_bounds: on the catalog grid, off the grid and above a short catalog,
\* and a depth equal to the two flange thicknesses
Designs ==
    { [tf_top |-> I(10), tf_bot |-> I(10), tw |-> I(10), bf_top |-> I(100),
       bf_bot |-> I(100), D |-> I(220), c |-> I(250), t_stiff |-> I(10)],
      [tf_top |-> I(15), tf_bot |-> I(15), tw |-> I(7), bf_top |-> R(187, 2),
       bf_bot |-> R(207, 2), D |-> I(405), c |-> I(245), t_stiff |-> R(49, 2)],
      [tf_top |-> I(100), tf_bot |-> I(100), tw |-> I(6), bf_top |-> I(100),
       bf_bot |-> I(100), D |-> I(200), c |-> I(200), t_stiff |-> I(6)] }

\* the design as a particle in the order of the variable list
ParticleOf(dsg, variable_list) ==
    [i \in 1..Len(variable_list) |->
        CASE variable_list[i] \in {"tf", "tf_top"} -> dsg.tf_top
          [] variable_list[i] = "tf_bot" -> dsg.tf_bot
          [] variable_list[i] = "tw" -> dsg.tw
          [] variable_list[i] \in {"bf", "bf_top"} -> dsg.bf_top
          [] variable_list[i] = "bf_bot" -> dsg.bf_bot
          [] variable_list[i] = "D" -> dsg.D
          [] variable_list[i] = "c" -> dsg.c
          [] variable_list[i] = "t_stiff" -> dsg.t_stiff]

MaxEvals == 2

Init ==
    /\ pc = "constructed"
    /\ call = NoCall
    /\ self = Constructed
    /\ ext = BaseExt

\* set_input_values, Customized branch (lines 698-808, 817-819)
SetInputValuesCustomized ==
    /\ pc = "constructed"
    /\ \E dd \in CustomizedDictionaries, x \in CustomizedExt :
          With(design_check(InitSelf(dd), x, FALSE), LAMBDA r :
              /\ self' = r.s
              /\ ext' = x
              /\ call' = Called("design_check", r))
    /\ pc' = "done"

\* set_input_values, Optimized branch, up to the call of pso (lines 698-816,
\* 988-1020)
SetInputValuesOptimized ==
    /\ pc = "constructed"
    /\ \E dd \in OptimizedDictionaries, x \in OptimizedExt :
          /\ self' = OptimizationContext(InitSelf(dd), x, dd.web_philosophy = ThickWeb,
                                         dd.is_symmetric)
          /\ ext' = x
    /\ call' = NoCall
    /\ pc' = "pso"

\* the swarm search calls the objective on a particle (line 1022)
EvaluateObjective ==
    /\ pc = "pso"
    /\ self.n_eval < MaxEvals
    /\ \E dsg \in Designs, x \in OptimizedExt :
          With(objective_function_with_penalty(self, x,
                   ParticleOf(dsg, self.optimization_variable_list)), LAMBDA r :
              /\ self' = [r.s EXCEPT !.n_eval = @ + 1]
              /\ ext' = x
              /\ call' = [op |-> "_objective_function_with_penalty", ret |-> r.ret,
                          raised |-> r.raised, val |-> r.val, penalty |-> r.penalty])
    /\ pc' = "pso"

\* the swarm search returns a best position; optimized_method rounds it and
\* runs the final design_check (lines 1034-1080)
FinishOptimization ==
    /\ pc = "pso"
    /\ self.n_eval >= 1
    /\ \E dsg \in Designs, x \in OptimizedExt :
          With(optimized_method_finish(self, x,
                   ParticleOf(dsg, self.optimization_variable_list)), LAMBDA r :
              /\ self' = r.s
              /\ ext' = x
              /\ call' = Called("optimized_method", r))
    /\ pc' = "done"

Next ==
    \/ SetInputValuesCustomized
    \/ SetInputValuesOptimized
    \/ EvaluateObjective
    \/ FinishOptimization

Spec == Init /\ [][Next]_vars

-----------------------------------------------------------------------------
(* Properties of Spec.                                                     *)

\* design_check returned or raised in set_input_values (line 819)
DesignCheckCalled == pc = "done" /\ call.op = "design_check"

\* C2: design_check on a geometry whose total depth is at most the two
\* flange thicknesses returns fail without raising, and moment_ratio,
\* shear_ratio, deflection_ratio, web_buckling_ratio and endshear_ratio are
\* then all at least the failing sentinel 2.0.
C2_InvalidGeometrySentinels ==
    (DesignCheckCalled /\ RLe(self.eff_depth, I(0))) =>
        /\ ~call.raised
        /\ call.ret = FALSE
        /\ RLe(FailRatio, self.moment_ratio)
        /\ RLe(FailRatio, self.shear_ratio)
        /\ RLe(FailRatio, self.deflection_ratio)
        /\ RLe(FailRatio, self.web_buckling_ratio)
        /\ RLe(FailRatio, self.endshear_ratio)

\* optimized_method rounded a best position (lines 1034-1068)
Rounded == pc = "done" /\ call.op = "optimized_method"

\* the component of the best position the swarm search returned
Optimum(name) ==
    Component(self.best_design_var,
              build_variable_structure(self.optimization_is_thick_web,
                                       self.optimization_is_symmetric), name)

\* C8: after optimized_method every rounded design value (flange
\* thicknesses, web thickness, stiffener thickness, flange widths, depth,
\* spacing) is at least the raw optimum of its variable.
C8_RoundingNeverDown ==
    Rounded =>
        LET sym == self.optimization_is_symmetric
        IN  /\ RLe(Optimum(IF sym THEN "tf" ELSE "tf_top"), self.top_flange_thickness)
            /\ RLe(Optimum(IF sym THEN "tf" ELSE "tf_bot"), self.bottom_flange_thickness)
            /\ RLe(Optimum("tw"), self.web_thickness)
            /\ RLe(Optimum(IF sym THEN "bf" ELSE "bf_top"), self.top_flange_width)
            /\ RLe(Optimum(IF sym THEN "bf" ELSE "bf_bot"), self.bottom_flange_width)
            /\ RLe(Optimum("D"), self.total_depth)
            /\ ~self.optimization_is_thick_web =>
                  /\ RLe(Optimum("t_stiff"), self.IntStiffThickness)
                  /\ RLe(Optimum("c"), self.c)

\* design_check went into the thin-web branch (line 880): beta_value at
\* line 861 is the last call before the branch
ThinWebBranchEntered ==
    DesignCheckCalled /\ self.web_philosophy = ThinWeb /\ InRan("beta_value")

SpacingChecks ==
    MomentChecks \cup
    {"shear_buckling_check_simple_postcritical", "shear_buckling_check_tension_field",
     "shear_buckling_check_intermediate_stiffener", "design_longitudinal_stiffeners",
     "end_panel_stiffener_calc", "min_web_thickness_thick_web"}

\* C9: in the thin-web branch, design_check with spacing 'NA' or <= 0
\* returns fail with the spacing error logged and does not raise; no
\* shear-buckling, stiffener or moment check has run.
C9_SpacingRequired ==
    (ThinWebBranchEntered /\ (self.c = NA \/ (IsNumber(self.c) /\ RLe(self.c, I(0))))) =>
        /\ ~call.raised
        /\ call.ret = FALSE
        /\ IF self.c = NA THEN SpacingMissing \in self.log
                          ELSE SpacingNonPositive \in self.log
        /\ \A name \in SpacingChecks : ~InRan(name)

C9_Witness ==
    /\ ThinWebBranchEntered
    /\ self.c = I(-5)
    /\ self.long_Stiffner = "Yes and 1 stiffener"
    /\ call.ret = FALSE
    /\ ~call.raised
    /\ SpacingNonPositive \in self.log

\* a non-silent design_check has ended: the Customized run of
\* set_input_values, or the final run of optimized_method
NonSilentCheckEnded == pc = "done" /\ call.op \in {"design_check", "optimized_method"}

\* C11: every non-silent design_check ends with the formatted output
\* populated by final_format, whatever the verdict and whatever made the
\* design fail.
C11_AlwaysFormatted ==
    NonSilentCheckEnded => (InRan("final_format") /\ self.formatted)

\* the entry of ran at which the latest design_check began
LastDesignCheck ==
    CHOOSE i \in 1..Len(self.ran) :
        /\ self.ran[i] = "design_check"
        /\ \A j \in (i + 1)..Len(self.ran) : self.ran[j] # "design_check"

\* the latest design_check entered the method
RanInCheck(name) == \E i \in LastDesignCheck..Len(self.ran) : self.ran[i] = name

\* a design_check has ended: the Customized run, a silent run inside the
\* objective, or the final run of optimized_method
CheckEnded ==
    /\ pc \in {"done", "pso"}
    /\ call.op \in {"design_check", "optimized_method", "_objective_function_with_penalty"}
    /\ InRan("design_check")

\* the latest design_check ran its checks to the end (line 926)
RanToEnd == CheckEnded /\ RanInCheck("evaluate_deflection_kNm_mm")

\* line 930, from the flags the object holds
AllChecksPassed == self.momentchecks /\ self.shearchecks /\ self.defl_check

\* C12: when design_check runs its checks to the end, the verdict it
\* returns is momentchecks /\ shearchecks /\ defl_check and nothing else;
\* a non-silent run logs "Design is SAFE." exactly for that verdict.
C12_VerdictIsConjunction ==
    RanToEnd =>
        /\ ~call.raised => (call.ret = AllChecksPassed)
        /\ call.op # "_objective_function_with_penalty" =>
              (("Design is SAFE." \in self.log) = AllChecksPassed)

\* a silent run to the end that returned its verdict
C12_Witness ==
    /\ RanToEnd
    /\ call.op = "_objective_function_with_penalty"
    /\ ~call.raised
    /\ call.ret
    /\ AllChecksPassed
    /\ ~self.long_check

\* where the latest design_check entered the method; 0 when it did not
PosInCheck(name) ==
    IF RanInCheck(name)
    THEN CHOOSE i \in LastDesignCheck..Len(self.ran) : self.ran[i] = name
    ELSE 0

PosMomentCheck ==
    IF RanInCheck("moment_capacity_laterally_supported")
    THEN PosInCheck("moment_capacity_laterally_supported")
    ELSE PosInCheck("moment_capacity_laterally_unsupported")

\* the end panel check and then the deflection check ran, after the moment
\* check that closes either branch
EndPanelThenDeflection ==
    /\ PosMomentCheck > 0
    /\ PosMomentCheck < PosInCheck("end_panel_stiffener_calc")
    /\ PosInCheck("end_panel_stiffener_calc") < PosInCheck("evaluate_deflection_kNm_mm")

\* the latest design_check went into one of the two branches (line 863)
BranchEntered == CheckEnded /\ RanInCheck("beta_value")

\* C13 as stated: every design_check call, in either branch, runs the end
\* panel check and then the deflection check before it returns its verdict.
C13_Original ==
    (BranchEntered /\ ~call.raised) => EndPanelThenDeflection

\* C13: a design_check that returns after the moment check of its branch,
\* or that reaches final_format, has run the end panel check and then the
\* deflection check after the branch; and a failed end panel check makes
\* shearchecks and the verdict fail whatever the earlier shear checks gave.
C13_EndPanelAndDeflection ==
    CheckEnded =>
        /\ (PosMomentCheck > 0 /\ ~call.raised) => EndPanelThenDeflection
        /\ RanInCheck("final_format") =>
              /\ EndPanelThenDeflection
              /\ PosInCheck("evaluate_deflection_kNm_mm") < PosInCheck("final_format")
        /\ (RanToEnd /\ ~self.end_panel_passed) =>
              /\ ~self.shearchecks
              /\ ~call.raised => ~call.ret
              /\ "Design is SAFE." \notin self.log

\* the earlier shear checks, the moment check and the deflection check
\* passed, the end panel check failed
C13_Witness ==
    /\ RanToEnd
    /\ call.op = "design_check"
    /\ self.shearflag1
    /\ self.shearflag2
    /\ self.momentchecks
    /\ self.defl_check
    /\ ~self.end_panel_passed
    /\ ~self.shearchecks
    /\ EndPanelThenDeflection
    /\ "Design FAILED. Check logs for details." \in self.log

\* the objective was evaluated on a particle and returned (line 985)
ObjectiveReturned ==
    pc = "pso" /\ call.op = "_objective_function_with_penalty" /\ ~call.raised

\* line 982
FixedPenalty == I(1000000)

\* C14: the penalty is 0 exactly when design_check returns pass, and for
\* every failing candidate it is at least the fixed penalty 1e6.
C14_PenaltyAtLeastFixed ==
    ObjectiveReturned =>
        /\ call.ret = RIsZero(call.penalty)
        /\ ~call.ret => RLe(FixedPenalty, call.penalty)

\* the Optimized dictionary the object was set up from: the fields that
\* tell the dictionaries apart are not written during the search
SearchDictionary ==
    CHOOSE dd \in OptimizedDictionaries :
        /\ dd.web_philosophy = self.web_philosophy
        /\ dd.is_symmetric = self.optimization_is_symmetric
        /\ dd.catalog_strings = self.catalog_strings
        /\ dd.tw_list = self.web_thickness_list
        /\ dd.moment = self.load.moment

\* the object as optimized_method holds it before the first particle
SearchStart ==
    OptimizationContext(InitSelf(SearchDictionary), ext,
                        SearchDictionary.web_philosophy = ThickWeb,
                        SearchDictionary.is_symmetric)

\* the particle the objective was last evaluated on, read back from the
\* dimensions assign_particle_to_section wrote (lines 826-848)
EvaluatedParticle ==
    ParticleOf([tf_top |-> self.top_flange_thickness,
                tf_bot |-> self.bottom_flange_thickness,
                tw |-> self.web_thickness,
                bf_top |-> self.top_flange_width,
                bf_bot |-> self.bottom_flange_width,
                D |-> self.total_depth,
                c |-> self.c,
                t_stiff |-> self.IntStiffThickness],
               self.optimization_variable_list)

\* C15: the objective value of a particle depends only on the particle and
\* the fixed inputs: after any sequence of other particles it equals the
\* value the same particle gets as the first one evaluated.
C15_ObjectiveIgnoresHistory ==
    ObjectiveReturned =>
        call.val = objective_function_with_penalty(SearchStart, ext, EvaluatedParticle).val

\* D - tf_top - tf_bot of the design the object holds, 0 when not positive
\* (the rule of lines 734-737 and 833-836)
EffDepthOf(s) == IF RLt(I(0), WebDepth(s)) THEN WebDepth(s) ELSE I(0)

\* the stiffener width the flange widths and web thickness of the object
\* give, by the rule of set_input_values (line 805) and by the rule of
\* assign_particle_to_section (line 839)
StiffenerWidthsOf(s) ==
    LET bf == RMin(s.top_flange_width, s.bottom_flange_width)
    IN  { RSub(RSub(RDiv(bf, I(2)), RDiv(s.web_thickness, I(2))), I(10)),
          RSub(RSub(bf, RDiv(s.web_thickness, I(2))), I(10)) }

\* C16: the final design_check of optimized_method evaluates the rounded
\* design: eff_depth is total_depth - top_flange_thickness -
\* bottom_flange_thickness of the rounded values and the stiffener widths
\* derive from the rounded flange widths and web thickness.
C16_FinalCheckOnRoundedDesign ==
    Rounded =>
        /\ self.eff_depth = EffDepthOf(self)
        /\ self.IntStiffnerwidth \in StiffenerWidthsOf(self)
        /\ self.end_stiffwidth \in StiffenerWidthsOf(self)

\* v is the smallest entry of the catalog lst that is >= opt
SmallestEntryAtLeast(lst, opt, v) ==
    /\ \E i \in 1..Len(lst) : v = I(lst[i])
    /\ RLe(opt, v)
    /\ \A i \in 1..Len(lst) : RLe(opt, I(lst[i])) => RLe(v, I(lst[i]))

\* v is the smallest multiple of modulus that is >= opt
SmallestMultipleAtLeast(modulus, opt, v) ==
    /\ v.d = 1
    /\ v.n % modulus = 0
    /\ RLe(opt, v)
    /\ RLt(RSub(v, I(modulus)), opt)

\* C17: each thickness chosen is the smallest entry of its catalog that is
\* >= the raw optimum, and each width, depth and spacing is the smallest
\* multiple of 10, 25 and 10 that is >= the raw optimum.
C17_RoundedUpToNearest ==
    Rounded =>
        LET sym == self.optimization_is_symmetric
        IN  /\ SmallestEntryAtLeast(self.top_flange_thickness_list,
                   Optimum(IF sym THEN "tf" ELSE "tf_top"), self.top_flange_thickness)
            /\ SmallestEntryAtLeast(IF sym THEN self.top_flange_thickness_list
                                    ELSE self.bottom_flange_thickness_list,
                   Optimum(IF sym THEN "tf" ELSE "tf_bot"), self.bottom_flange_thickness)
            /\ SmallestEntryAtLeast(self.web_thickness_list, Optimum("tw"),
                                    self.web_thickness)
            /\ SmallestMultipleAtLeast(10, Optimum(IF sym THEN "bf" ELSE "bf_top"),
                                       self.top_flange_width)
            /\ SmallestMultipleAtLeast(10, Optimum(IF sym THEN "bf" ELSE "bf_bot"),
                                       self.bottom_flange_width)
            /\ SmallestMultipleAtLeast(25, Optimum("D"), self.total_depth)
            /\ ~self.optimization_is_thick_web =>
                  /\ SmallestEntryAtLeast(self.int_thickness_list, Optimum("t_stiff"),
                                          self.IntStiffThickness)
                  /\ SmallestMultipleAtLeast(10, Optimum("c"), self.c)

(* C18.  The moment check, the thick-web shear capacity check and the      *)
(* deflection check each return pass exactly when the ratio they wrote is  *)
(* at most 1.0: a failing check never leaves a ratio of 1.0 or less.       *)

RatioChecks == {"moment_capacity_laterally_supported", "shear_capacity_laterally_supported_thick_web", "evaluate_deflection_kNm_mm"}

RatioWritten ==
    CASE call.op = "moment_capacity_laterally_supported" -> self.moment_ratio
      [] call.op = "shear_capacity_laterally_supported_thick_web" -> self.shear_ratio
      [] call.op = "evaluate_deflection_kNm_mm" -> self.deflection_ratio
      [] OTHER -> NoneR

C18_PassIffRatioWithinOne ==
    (pc = "checked" /\ call.op \in RatioChecks /\ ~call.raised)
        => (call.ret <=> RLe(RatioWritten, I(1)))

\* the latest design_check reached the strength checks of the thick-web
\* branch (line 864)
ThickWebBranchEntered ==
    /\ CheckEnded
    /\ self.web_philosophy = ThickWeb
    /\ RanInCheck("min_web_thickness_thick_web")

ThickWebShearChecks == {"shear_capacity_laterally_supported_thick_web", "web_buckling_laterally_supported_thick_web", "web_crippling_laterally_supported_thick_web"}

SelectedMomentCheckName ==
    IF self.support_type = "Major Laterally Supported"
    THEN "moment_capacity_laterally_supported"
    ELSE "moment_capacity_laterally_unsupported"

\* the latest design_check gave the verdict pass: it returned True, or it
\* logged the verdict of a non-silent run
VerdictPass ==
    \/ ~call.raised /\ call.ret
    \/ call.op # "_objective_function_with_penalty" /\ "Design is SAFE." \in self.log

\* C19: in the thick-web branch design_check runs the strength checks only
\* if the minimum web thickness check passes, and returns fail otherwise;
\* its verdict is pass only if the moment check selected by the support
\* type and all three of thick-web shear capacity, web buckling and web
\* crippling ran and passed.
C19_ThickWebVerdict ==
    ThickWebBranchEntered =>
        /\ ~self.design_flag2 =>
              /\ \A name \in ThickWebShearChecks \cup MomentChecks : ~RanInCheck(name)
              /\ ~call.raised
              /\ ~call.ret
              /\ "Design is SAFE." \notin self.log
        /\ VerdictPass =>
              /\ self.design_flag2
              /\ \A name \in ThickWebShearChecks : RanInCheck(name)
              /\ RanInCheck(SelectedMomentCheckName)
              /\ self.shearflag1 /\ self.shearflag2 /\ self.shearflag3
              /\ self.momentchecks

\* a thick-web run that passed every check and returned pass
C19_Witness ==
    /\ ThickWebBranchEntered
    /\ ~call.raised
    /\ call.ret
    /\ self.shearflag1 /\ self.shearflag2 /\ self.shearflag3 /\ self.momentchecks

\* end_panel_stiffener_calc was applied to the object
EndPanelCalled == pc = "checked" /\ call.op = "end_panel_stiffener_calc" /\ ~call.raised

\* the arguments the scan works on, as lines 391-417 derive them
EndPanelArgs ==
    [Bf_top |-> self.top_flange_width, Bf_bot |-> self.bottom_flange_width,
     tw |-> self.web_thickness, fy |-> self.fy, gamma_m0 |-> self.gamma_m0,
     d |-> self.eff_depth, eps |-> self.epsilon,
     c |-> IF self.c = NoneR \/ self.c = NA \/ RIsZero(self.c) THEN self.eff_depth ELSE self.c]

\* a stiffener of thickness thk satisfies the thickness-to-width rule and
\* has buckling and bearing ratios of at most 1.0 (lines 434-487)
EndPanelEntryPasses(thk) ==
    With(EndPanelEntry(self, ext, EndPanelArgs, I(thk)), LAMBDA e :
        /\ ~e.too_thin
        /\ ~e.no_area
        /\ ~RIsZero(e.Pd)
        /\ ~RIsZero(e.P_bf)
        /\ RLe(RDiv(self.load.shear_force, e.Pd), I(1))
        /\ RLe(RDiv(self.load.shear_force, e.P_bf), I(1)))

\* the entries of the configured catalog that pass
PassingCatalogEntries ==
    IF RLe(self.eff_depth, I(0)) THEN {}
    ELSE { self.int_thickness_list[i] : i \in { j \in 1..Len(self.int_thickness_list) : EndPanelEntryPasses(self.int_thickness_list[j]) } }

\* C20: end_panel_stiffener_calc scans the configured stiffener thickness
\* catalog in ascending order and stops at the first entry that passes: on
\* success end_stiffthickness is the smallest catalog thickness that passes;
\* if the catalog is empty or no entry passes the check returns fail and
\* end_stiffthickness is not left at a thickness that failed.
C20_SmallestCatalogThickness ==
    EndPanelCalled =>
        IF PassingCatalogEntries # {}
        THEN /\ call.ret
             /\ \E t \in PassingCatalogEntries :
                   /\ self.end_stiffthickness = I(t)
                   /\ \A u \in PassingCatalogEntries : t <= u
        ELSE /\ ~call.ret
             /\ self.end_stiffthickness = I(0)

\* r is the largest of the ratios the shear checks of the pass computed
LargestOfChain(r) ==
    /\ \E i \in 1..Len(self.shear_chain) : self.shear_chain[i] = r
    /\ \A i \in 1..Len(self.shear_chain) : RLe(self.shear_chain[i], r)

\* C21: when design_check has run its checks to the end, shear_ratio is the
\* maximum of the ratios the shear checks of that pass computed (shear
\* capacity or shear buckling, web buckling, intermediate stiffener, end
\* panel): no later check of the pass lowered what an earlier one wrote.
C21_ShearRatioIsMaximum ==
    RanToEnd => LargestOfChain(self.shear_ratio)

\* a pass in which the last shear check computed a smaller ratio than an
\* earlier one, and one in which it computed the largest
C21_Witness ==
    /\ RanToEnd
    /\ Len(self.shear_chain) >= 3
    /\ RLt(self.shear_chain[Len(self.shear_chain)], self.shear_ratio)
    /\ RLt(I(0), self.shear_chain[Len(self.shear_chain)])

\* the object with the loading case and the warping restraint replaced by
\* the ones the fallbacks stand for
WithDefaultCase(s) ==
    [s EXCEPT !.loading_case = IF @ \in LoadingCases THEN @ ELSE KEY_DISP_UDL_PIN_PIN_PG,
              !.warping = IF @ \in WarpingRestraints THEN @ ELSE WarpingNotRestrained]

\* the check just applied gives, on the object with the defaults in place,
\* the same verdict and the same ratios, and raises in the same cases
SameAsDefaultCase ==
    With(WithDefaultCase(self), LAMBDA d :
    With(IF call.op = "evaluate_deflection_kNm_mm"
         THEN evaluate_deflection_kNm_mm(d, ext, d.load.moment, d.length, d.E,
                  d.loading_case, d.deflection_criteria, FALSE)
         ELSE moment_capacity_laterally_unsupported(d, ext, d.E, d.effective_length,
                  d.total_depth, d.top_flange_thickness, d.bottom_flange_thickness,
                  d.top_flange_width, d.bottom_flange_width, d.web_thickness,
                  d.loading_case, d.gamma_m0, d.fy, d.load.shear_force, FALSE),
         LAMBDA r :
        /\ r.raised = call.raised
        /\ r.ret = call.ret
        /\ r.s.moment_ratio = self.moment_ratio
        /\ r.s.deflection_ratio = self.deflection_ratio
        /\ r.s.Md = self.Md))

CaseChecked(name) == pc = "checked" /\ call.op = name

\* C22: a loading case the code does not name gives the deflection
\* coefficient and the coefficients K, c1, c2, c3 of the uniformly
\* distributed load on a pinned-pinned span, a warping restraint it does not
\* name gives K = 1.0, and neither makes the check fail or raise: the check
\* ends as it does with the default named.
C22_UnknownCaseFallsBack ==
    /\ (CaseChecked("moment_capacity_laterally_unsupported")
          /\ self.loading_case \notin LoadingCases) =>
          /\ LTBCoefficients(self.loading_case) = LTBCoefficients(KEY_DISP_UDL_PIN_PIN_PG)
          /\ [k \in {"K_value", "c1", "c2", "c3"} |-> self.ltb[k]]
                = LTBCoefficients(KEY_DISP_UDL_PIN_PIN_PG)
          /\ ~call.raised
          /\ SameAsDefaultCase
    /\ (CaseChecked("moment_capacity_laterally_unsupported")
          /\ self.warping \notin WarpingRestraints) =>
          /\ self.ltb.Kw = I(1)
          /\ ~call.raised
          /\ SameAsDefaultCase
    /\ (CaseChecked("evaluate_deflection_kNm_mm")
          /\ self.loading_case \notin LoadingCases) =>
          /\ deflection_from_moment_kNm_mm(self.load.moment, self.length, self.E,
                 ext.Iz, self.loading_case)
             = deflection_from_moment_kNm_mm(self.load.moment, self.length, self.E,
                 ext.Iz, KEY_DISP_UDL_PIN_PIN_PG)
          /\ ~call.raised
          /\ SameAsDefaultCase

\* both checks were applied with a loading case and a warping restraint
\* the code does not name, and the deflection check passed
C22_Witness ==
    /\ pc = "checked"
    /\ self.loading_case = UnknownCase
    /\ self.warping = UnknownWarping
    /\ call.op = "evaluate_deflection_kNm_mm"
    /\ call.ret
    /\ RLt(I(0), self.deflection_ratio)

IntermediateCalled ==
    /\ pc = "checked"
    /\ call.op = "shear_buckling_check_intermediate_stiffener"
    /\ ~call.raised
    /\ RLt(I(0), self.eff_depth)

\* lines 522-531 for the arguments design_check passes: the second moment of
\* area of the stiffener pair reaches the minimum for the spacing
RigidityMet ==
    LET d     == self.eff_depth
        tw    == self.web_thickness
        I_min == IF RLe(I(2), RSq(RDiv(self.c, d)))
                 THEN RMul(RMul(R(3, 4), d), RMul(tw, RSq(tw)))
                 ELSE RMul(R(3, 2), RMul(RMul(RSq(RDiv(d, self.c)), d), RMul(tw, RSq(tw))))
        width == RMin(self.IntStiffnerwidth,
                      RMul(RMul(I(14), self.IntStiffThickness), self.epsilon))
    IN  RLe(I_min, StiffenerPlatesI(self.IntStiffThickness, width, tw))

\* V - V_cr, the force the stiffener strut has to resist
ResidualShear == RSub(self.load.shear_force, self.V_cr)

\* the strut buckling check was carried out: it wrote its resistance and its
\* ratio
StrutChecked == self.Critical_buckling_resistance \notin {NoneR, Inf} /\ Len(self.shear_chain) = 1

\* C23: shear_buckling_check_intermediate_stiffener fails when the second
\* moment of area of the stiffener is below the minimum for the spacing; the
\* strut buckling check is carried out only when V - V_cr is positive, and
\* with V - V_cr <= 0 the check passes as soon as the rigidity requirement
\* is met.
C23_RigidityThenStrut ==
    IntermediateCalled =>
        /\ ~RigidityMet => (~call.ret /\ ~StrutChecked)
        /\ StrutChecked => (RigidityMet /\ RLt(I(0), ResidualShear))
        /\ (RigidityMet /\ RLe(ResidualShear, I(0))) => (call.ret /\ ~StrutChecked)
        /\ (RigidityMet /\ RLt(I(0), ResidualShear)) =>
              (call.ret <=> RLe(ResidualShear, self.Critical_buckling_resistance))

\* rigidity met and no residual shear: passed without the strut check
C23_Witness ==
    /\ IntermediateCalled
    /\ RigidityMet
    /\ RLe(ResidualShear, I(0))
    /\ call.ret
    /\ ~StrutChecked

\* the latest design_check reached section_classification (line 841)
Classified == CheckEnded /\ RanInCheck("section_classification")

\* the checks that follow the classification in either branch
ChecksAfterClassification ==
    SpacingChecks \cup ThickWebShearChecks \cup
    {"beta_value", "evaluate_deflection_kNm_mm"}

\* C24: classification always sets section_class to one of Plastic,
\* Compact, SemiCompact, Slender; design_check returns fail before any
\* strength check runs when the class is Slender under 'Thick Web without
\* ITS', and for every other class and philosophy the classification does
\* not stop the evaluation.
C24_OnlySlenderThickStops ==
    Classified =>
        /\ self.section_class \in Classes
        /\ self.section_class =
              CombineClass(ext.flange_class_top, ext.web_class, ext.flange_class_bottom)
        /\ IF self.section_class = Slender /\ self.web_philosophy = ThickWeb
           THEN /\ ~call.raised
                /\ ~call.ret
                /\ \A name \in ChecksAfterClassification : ~RanInCheck(name)
           ELSE RanInCheck("beta_value")

\* a lies between the minimum and the maximum permissible size of joint j
WithinLimits(a, j) == RLe(j.min, a) /\ RLe(a, j.max)

\* C25: the weld leg sizes returned by
\* design_welds_with_strength_web_to_flange (top and bottom) and by
\* weld_for_end_stiffener lie between the minimum and the maximum
\* permissible weld size for the plates joined.
C25_WeldWithinLimits ==
    /\ (pc = "checked" /\ call.op = "design_welds_with_strength_web_to_flange") =>
          /\ WithinLimits(call.val[1], ext.weld_top)
          /\ WithinLimits(call.val[2], ext.weld_bot)
    /\ (pc = "checked" /\ call.op = "weld_for_end_stiffener") =>
          WithinLimits(call.val, ext.weld_st)

\* lines 755-774: the dimensions generate_first_particle computes, by name
SeedDimensions(s, x, is_thick_web) ==
    LET D_final == RMax(RMax(RDiv(s.length, I(25)), x.d_opt), I(200))
        bf == RMul(R(3, 10), D_final)
        tf == RMax(RMax(RDiv(bf, I(24)), RDiv(bf, RMul(R(84, 10), s.epsilon))), I(6))
        d0 == RSub(D_final, RMul(I(2), tf))
        d  == IF RLe(d0, I(0)) THEN RMul(D_final, R(8, 10)) ELSE d0
        k  == IF is_thick_web THEN I(84) ELSE I(105)
        tw == RMax(RMax(RDiv(d, I(200)), RDiv(d, RMul(k, s.epsilon))), I(8))
    IN  [tf_top |-> tf, tf_bot |-> tf, tw |-> tw, bf_top |-> bf, bf_bot |-> bf,
         D |-> D_final, c |-> d, t_stiff |-> I(6)]

\* a value clipped to the bounds of the variable called name
ClipTo(v, name) == RMin(RMax(v, I(bounds_map(name)[1])), I(bounds_map(name)[2]))

\* the search is set up: optimized_method has passed line 1014
SearchSetUp == self.optimization_design_dictionary

\* the Section the clipped seed stands for
SeedSection ==
    assign_particle_to_section(self, self.initial_particle,
                               self.optimization_variable_list).sec

\* the design whose particle the objective was last evaluated on is written
\* to the fields its components stand for
ParticleWritten(dsg) ==
    LET vl == self.optimization_variable_list
        sym == self.optimization_is_symmetric
    IN  /\ self.top_flange_thickness = dsg.tf_top
        /\ self.bottom_flange_thickness = (IF sym THEN dsg.tf_top ELSE dsg.tf_bot)
        /\ self.web_thickness = dsg.tw
        /\ self.top_flange_width = dsg.bf_top
        /\ self.bottom_flange_width = (IF sym THEN dsg.bf_top ELSE dsg.bf_bot)
        /\ self.total_depth = dsg.D
        /\ self.c = (IF self.optimization_is_thick_web THEN NA ELSE dsg.c)
        /\ self.IntStiffThickness =
              (IF self.optimization_is_thick_web THEN I(0) ELSE dsg.t_stiff)

\* C26: for each of the four (symmetric, thick-web) configurations the
\* variable list, the two bound vectors and the clipped seed have the same
\* length (4, 6, 6, 8) and the same order (thin-web lists end with c,
\* t_stiff), every component of the clipped seed lies within its bounds,
\* assign_particle_to_section writes every seed component to the field it
\* stands for, and a particle the objective is evaluated on is written to
\* the fields its components stand for.
C26_VectorsAgree ==
    SearchSetUp =>
        LET vl == self.optimization_variable_list
            p  == self.initial_particle
            b  == get_bounds(vl)
            thick == self.optimization_is_thick_web
            sym == self.optimization_is_symmetric
            sd == SeedDimensions(self, ext, thick)
        IN  /\ vl = (IF sym THEN <<"tf", "tw", "bf", "D">>
                     ELSE <<"tf_top", "tf_bot", "tw", "bf_top", "bf_bot", "D">>)
                    \o (IF thick THEN << >> ELSE <<"c", "t_stiff">>)
            /\ Len(vl) = (IF sym THEN 4 ELSE 6) + (IF thick THEN 0 ELSE 2)
            /\ Len(p) = Len(vl) /\ Len(b.lb) = Len(vl) /\ Len(b.ub) = Len(vl)
            /\ \A i \in 1..Len(p) : RLe(b.lb[i], p[i]) /\ RLe(p[i], b.ub[i])
            /\ SeedSection.tf_top = ClipTo(sd.tf_top, "tf")
            /\ SeedSection.tf_bot = ClipTo(sd.tf_bot, "tf")
            /\ SeedSection.tw = ClipTo(sd.tw, "tw")
            /\ SeedSection.bf_top = ClipTo(sd.bf_top, "bf")
            /\ SeedSection.bf_bot = ClipTo(sd.bf_bot, "bf")
            /\ SeedSection.D = ClipTo(sd.D, "D")
            /\ SeedSection.c = (IF thick THEN NoneR ELSE ClipTo(sd.c, "c"))
            /\ SeedSection.t_stiff = (IF thick THEN NoneR ELSE ClipTo(sd.t_stiff, "t_stiff"))
            /\ (call.op = "_objective_function_with_penalty" /\ ~call.raised)
                  => \E dsg \in Designs : ParticleWritten(dsg)

\* an unsymmetric thin-web search (8 components) is set up, its seed has
\* distinct tf, tw, bf, D and c, and a particle has been evaluated
C26_Witness ==
    /\ SearchSetUp
    /\ Len(self.optimization_variable_list) = 8
    /\ Len(self.initial_particle) = 8
    /\ SeedSection.c # SeedSection.D
    /\ SeedSection.tf_top # SeedSection.tw
    /\ call.op = "_objective_function_with_penalty"
    /\ ~call.raised

\* the latest design_check was a silent one, made by the objective
SilentEvaluation == call.op = "_objective_function_with_penalty"

\* C27: design_status is True only if the most recent non-silent
\* design_check ran its checks to the end and its moment, shear-chain and
\* deflection verdicts are all pass; a silent evaluation made by the search
\* leaves design_status as set_input_values reset it (False), whatever
\* verdict it returns.
C27_StatusOnlyAfterPass ==
    /\ self.design_status =>
          /\ CheckEnded /\ ~SilentEvaluation
          /\ RanToEnd /\ AllChecksPassed
          /\ "Design is SAFE." \in self.log
    /\ (pc = "pso" \/ SilentEvaluation) => ~self.design_status
    /\ (CheckEnded /\ ~(RanToEnd /\ AllChecksPassed)) => ~self.design_status

\* a silent evaluation returned a pass verdict and design_status is still
\* False
C27_Witness ==
    /\ SilentEvaluation
    /\ ~call.raised
    /\ call.ret
    /\ RanToEnd /\ AllChecksPassed
    /\ ~self.design_status

-----------------------------------------------------------------------------
(* Bolted lap joint (lap_joint_bolted.py): the bolt layout, the two        *)
(* capacity reductions and the retry of final_formatting, step by step.    *)
(* In this specification self holds the fields of the LapJointBolted       *)
(* object (those of its Bolt included), pc is the method the program is    *)
(* in, and call holds the arguments count and hit of the active            *)
(* number_r_c_bolts and the stack of active frames, each frame written as  *)
(* what its caller does when it returns.                                   *)

KEY_BearingBolt == "Bearing Bolt"
KEY_FrictionGripBolt == "Friction Grip Bolt"

\* round(x, 0): to the nearest whole number, ties to even
Round0(a) ==
    LET whole == a.n \div a.d
        r2 == 2 * (a.n - whole * a.d)
        up == r2 > a.d \/ (r2 = a.d /\ whole % 2 = 1)
    IN  I(IF up THEN whole + 1 ELSE whole)

\* math.ceil(a / b) for whole a, b > 0
CeilDiv(a, b) == (a + b - 1) \div b

\* frames the interpreter allows before it raises RecursionError
RecursionLimit == 32

\* columns the layout loop is followed for
MaxCols == 16

\* lines 447-542 for the diameter and grade the selection ends on: the
\* spacing limits and capacities the Bolt library returned (inp.lib_*),
\* adjusted and rounded as the method does, for a 'Sheared or hand flame
\* cut' edge and plates of fy = 250
select_bolt_dia_and_grade(inp) ==
    LET d == I(inp.d)
        pltthk == I(IF inp.plate1thk < inp.plate2thk THEN inp.plate1thk ELSE inp.plate2thk)
        bearing == inp.bolt_type = KEY_BearingBolt
    IN  [bolt_type |-> inp.bolt_type,
         bolt_diameter_provided |-> d,
         plate1thk |-> I(inp.plate1thk),
         plate2thk |-> I(inp.plate2thk),
         width |-> I(inp.width),
         tensile_force |-> I(inp.tensile_force),
         min_pitch_round |-> RMin(inp.lib_min_pitch, RMul(R(5, 2), d)),
         min_end_dist_round |-> Round0(RMax(RMul(R(17, 10), d), inp.lib_min_end)),
         max_gauge_round |-> RMin(RMul(I(32), pltthk), I(300)),
         max_end_dist_round |-> Round0(RMin(inp.lib_max_edge, RMul(I(12), pltthk))),
         bolt_shear_capacity |-> Round2(inp.lib_shear),
         bolt_bearing_capacity |-> IF bearing THEN Round2(inp.lib_bearing)
                                   ELSE inp.lib_bearing,
         bolt_capacity |-> Round2(IF bearing THEN RMin(inp.lib_shear, inp.lib_bearing)
                                  ELSE inp.lib_shear),
         slip_res |-> NoneR,
         base_metal_ok |-> inp.base_metal_ok,
         number_bolts |-> 0, rows |-> 0, cols |-> 0, temp_rows |-> 0,
         len_conn |-> I(0),
         bij |-> I(0), blg |-> I(0), cap_red |-> FALSE,
         design_status |-> TRUE, design_error |-> "",
         final_gauge |-> I(0), final_pitch |-> I(0),
         final_end_dist |-> I(0), final_edge_dist |-> I(0),
         \* ghosts: the exception raised, the retries issued by
         \* final_formatting, the bolt count when the last one was issued,
         \* the times an end distance was accepted, the factors applied to
         \* the shear capacity, and the capacity before any of them
         error |-> "", retries |-> 0, bolts_at_retry |-> 0, finalized |-> 0,
         n_bij |-> 0, n_blg |-> 0,
         unreduced |-> Round2(inp.lib_shear)]

\* F applied to the value of val, computed once
Bind(val, F(_)) == CHOOSE r \in {F(v) : v \in {val}} : TRUE

\* where a step of the program leaves the object, the position and the stack
Goto(s, c, target) == [s |-> s, pc |-> target, call |-> c]

\* the call of `target` with the arguments count, hit: a new frame, or
\* RecursionError when the stack is full
Invoke(s, c, target, label, count, hit) ==
    IF Len(c.stack) >= RecursionLimit
    THEN Goto([s EXCEPT !.error = "RecursionError"], c, "raised")
    ELSE Goto(s, [stack |-> Append(c.stack, label), count |-> count, hit |-> hit], target)

\* an exception leaves the object as it is
LapRaise(s, c, name) == Goto([s EXCEPT !.error = name], c, "raised")

\* line 569
check_no_cols(s, numbolts) ==
    RLe(s.width, RAdd(RMul(I(2), s.min_end_dist_round),
                      RMul(I(numbolts - 1), s.min_pitch_round)))

\* lines 545-575: the bolt count and the start of the layout loop
number_r_c_bolts(s, c) ==
    Bind(IF s.bolt_type = KEY_BearingBolt
         THEN [s EXCEPT !.slip_res = NA]
         ELSE [s EXCEPT !.slip_res = s.bolt_capacity,
                        !.bolt_bearing_capacity = NA,
                        !.bolt_shear_capacity = NA], LAMBDA s1 :
    IF c.hit = 0 /\ RIsZero(s.bolt_capacity)
    THEN LapRaise(s1, c, "ZeroDivisionError")
    ELSE Bind(IF c.hit = 0
              THEN Ceil(RDiv(s1.tensile_force, RDiv(s.bolt_capacity, I(1000))))
              ELSE s1.number_bolts + 1, LAMBDA n0 :
         Bind(IF n0 < 2 THEN 2 ELSE n0, LAMBDA n :
         Goto([s1 EXCEPT !.number_bolts = n, !.cols = 1, !.rows = n, !.temp_rows = n],
              c, "column_loop"))))

\* lines 577-580: one more column
add_column(s) ==
    [s EXCEPT !.temp_rows = CeilDiv(s.rows, s.cols + 1), !.cols = s.cols + 1]

\* lines 581-600: the loop is left; rows, the connection length and the
\* next method
layout_done(s, c) ==
    Bind([s EXCEPT
            !.rows = CeilDiv(s.rows, s.cols),
            !.len_conn = RAdd(RMul(I(IF s.cols > 1 THEN s.cols - 1 ELSE 1),
                                   s.min_pitch_round),
                              RMul(I(2), s.min_end_dist_round))], LAMBDA s1 :
    IF s1.number_bolts >= 2 /\ c.count = 0
    THEN Invoke([s1 EXCEPT !.design_status = TRUE], c,
                "check_capacity_reduction_1", "return", 0, 0)
    ELSE IF s1.number_bolts >= 2 /\ c.count = 1
    THEN Invoke([s1 EXCEPT !.design_status = TRUE], c, "final_formatting", "return", 0, 0)
    ELSE Goto([s1 EXCEPT !.design_status = FALSE], c, "return"))

\* the shear capacity times a factor, and the bolt capacity after it
\* (lines 612-617, 632-637)
Reduced(s, factor) ==
    Bind(RMul(s.bolt_shear_capacity, factor), LAMBDA shear :
    IF s.bolt_type = KEY_BearingBolt
    THEN [s EXCEPT !.bolt_shear_capacity = shear,
                   !.bolt_capacity = RMin(shear, s.bolt_bearing_capacity)]
    ELSE [s EXCEPT !.bolt_shear_capacity = shear, !.slip_res = shear,
                   !.bolt_capacity = shear])

\* lines 605-608: bij after the long joint test
LongJointFactor(s) ==
    Bind(RMul(I(s.rows - 1), s.min_pitch_round), LAMBDA lg :
    IF s.number_bolts > 2 /\ RLt(RMul(I(15), s.bolt_diameter_provided), lg)
    THEN RSub(R(1075, 1000), RDiv(lg, RMul(I(200), s.bolt_diameter_provided)))
    ELSE s.bij)

\* lines 603-621: the long joint factor
check_capacity_reduction_1(s, c) ==
    Bind([s EXCEPT !.bij = LongJointFactor(s)], LAMBDA s1 :
    Bind(RLe(R(3, 4), s1.bij) /\ RLe(s1.bij, I(1)), LAMBDA applies :
    IF applies /\ ~IsNumber(s1.bolt_shear_capacity)
    THEN LapRaise([s1 EXCEPT !.cap_red = TRUE], c, "TypeError")
    ELSE Invoke([(IF applies
                  THEN [Reduced(s1, s1.bij) EXCEPT !.cap_red = TRUE, !.n_bij = @ + 1]
                  ELSE s1) EXCEPT !.design_status = TRUE], c,
                "check_capacity_reduction_2", "return", 0, 0)))

\* lines 626-627: blg after the large grip test
LargeGripFactor(s) ==
    IF RLt(RMul(I(5), s.bolt_diameter_provided), RAdd(s.plate1thk, s.plate2thk))
    THEN RDiv(I(8), RAdd(I(3), RAdd(s.plate1thk,
                                    RDiv(s.plate2thk, s.bolt_diameter_provided))))
    ELSE s.blg

\* lines 623-637: the large grip factor and, when it is applied, the bolt
\* count again
check_capacity_reduction_2(s, c) ==
    Bind([s EXCEPT !.cap_red = FALSE, !.blg = LargeGripFactor(s)], LAMBDA s1 :
    Bind(RLt(s1.blg, s1.bij) /\ ~RIsZero(s1.blg), LAMBDA applies :
    IF applies /\ ~IsNumber(s1.bolt_shear_capacity)
    THEN LapRaise([s1 EXCEPT !.cap_red = TRUE], c, "TypeError")
    ELSE IF applies
    THEN Invoke([Reduced(s1, s1.blg) EXCEPT !.cap_red = TRUE, !.n_blg = @ + 1], c,
                "number_r_c_bolts", "cr2_tail", 1, 0)
    ELSE Goto(s1, c, "cr2_tail")))

\* lines 641-645
check_capacity_reduction_2_tail(s, c) ==
    IF ~s.cap_red
    THEN Invoke([s EXCEPT !.design_status = TRUE], c, "final_formatting", "return", 0, 0)
    ELSE Goto(s, c, "return")

\* round(v / 1000, 2), lines 679-685
kN(v) == Round2(RDiv(v, I(1000)))

\* lines 678-727: the capacities in kN and the distances rounded, once the
\* end distance is accepted; check_base_metal_strength is the library's
\* block shear strength and is taken as its verdict base_metal_ok
Finalize(s) ==
    Bind(IF s.bolt_type = KEY_BearingBolt
         THEN [s EXCEPT !.bolt_shear_capacity = kN(@),
                        !.bolt_bearing_capacity = kN(@),
                        !.bolt_capacity = kN(@)]
         ELSE [s EXCEPT !.slip_res = kN(@), !.bolt_capacity = kN(@)], LAMBDA s1 :
    IF RLe(RMul(s1.bolt_capacity, I(s1.number_bolts)), I(0))
    THEN [s1 EXCEPT !.design_status = FALSE,
                    !.design_error = "Bolt capacity is zero."]
    ELSE IF ~s1.base_metal_ok
    THEN [s1 EXCEPT !.design_status = FALSE,
                    !.design_error = "Net width insufficient for bolt holes."]
    ELSE [s1 EXCEPT !.final_gauge = Round0(@), !.final_pitch = Round0(@),
                    !.final_end_dist = Round0(@), !.final_edge_dist = Round0(@)])

\* lines 650-654, 667: the gauge final_formatting settles on
FinalGauge(s) ==
    Bind(RDiv(RSub(s.width, RMul(I(2), s.min_end_dist_round)),
              I(IF s.rows - 1 > 1 THEN s.rows - 1 ELSE 1)), LAMBDA gauge_dist :
    IF RLt(s.max_gauge_round, gauge_dist) THEN s.max_gauge_round ELSE gauge_dist)

\* lines 649-677: the gauge, the end distance, and the retry with one more
\* bolt when the end distance is above the maximum
final_formatting(s, c) ==
    Bind(FinalGauge(s), LAMBDA final_gauge :
    Bind(RDiv(RSub(s.width, RMul(I(s.rows - 1), final_gauge)), I(2)), LAMBDA enddist :
    Bind([s EXCEPT !.final_gauge = final_gauge,
                   !.final_pitch = s.min_pitch_round], LAMBDA s1 :
    IF RLt(s1.max_end_dist_round, enddist)
    THEN Invoke([s1 EXCEPT !.design_status = FALSE, !.retries = @ + 1,
                           !.bolts_at_retry = s1.number_bolts], c,
                "number_r_c_bolts", "return", 0, 1)
    ELSE Goto(Finalize([s1 EXCEPT !.final_end_dist = enddist,
                                  !.final_edge_dist = enddist,
                                  !.design_status = TRUE,
                                  !.finalized = @ + 1]), c, "return"))))

\* the program moves to where the step r leaves it
Becomes(r) ==
    /\ self' = r.s
    /\ pc' = r.pc
    /\ call' = r.call
    /\ UNCHANGED ext

NumberBolts ==
    /\ pc = "number_r_c_bolts"
    /\ \E r \in {number_r_c_bolts(self, call)} : Becomes(r)

AddColumn ==
    /\ pc = "column_loop"
    /\ check_no_cols(self, self.temp_rows)
    /\ self.cols < MaxCols
    /\ \E r \in {Goto(add_column(self), call, "column_loop")} : Becomes(r)

LayoutDone ==
    /\ pc = "column_loop"
    /\ ~check_no_cols(self, self.temp_rows)
    /\ \E r \in {layout_done(self, call)} : Becomes(r)

CapacityReduction1 ==
    /\ pc = "check_capacity_reduction_1"
    /\ \E r \in {check_capacity_reduction_1(self, call)} : Becomes(r)

CapacityReduction2 ==
    /\ pc = "check_capacity_reduction_2"
    /\ \E r \in {check_capacity_reduction_2(self, call)} : Becomes(r)

CapacityReduction2Tail ==
    /\ pc = "cr2_tail"
    /\ \E r \in {check_capacity_reduction_2_tail(self, call)} : Becomes(r)

FinalFormatting ==
    /\ pc = "final_formatting"
    /\ \E r \in {final_formatting(self, call)} : Becomes(r)

\* a method returns to its caller
return_to_caller(s, c) ==
    Goto(s, [c EXCEPT !.stack = SubSeq(@, 1, Len(@) - 1)],
         CASE c.stack[Len(c.stack)] = "cr2_tail" -> "cr2_tail"
           [] c.stack[Len(c.stack)] = "end" -> "done"
           [] OTHER -> "return")

Return ==
    /\ pc = "return"
    /\ \E r \in {return_to_caller(self, call)} : Becomes(r)

\* what the Bolt library returns for an M10 and an M20 bolt: pitch 2.5 d,
\* end distance 1.7 d0 rounded up to 5, edge distance 12 t
LapLibrary(d, t) ==
    [lib_min_pitch |-> RMul(R(5, 2), I(d)),
     lib_min_end |-> I(2 * d),
     lib_max_edge |-> I(12 * t),
     lib_shear |-> I(51200),
     lib_bearing |-> I(90000)]

LapWidths == {30, 100, 800}
LapBoltTypes == {KEY_BearingBolt, KEY_FrictionGripBolt}

\* the joints of one diameter: equal plates of the thicknesses ts under the
\* forces fs (kN)
LapCases(d, ts, fs) ==
    { [bolt_type |-> bt, d |-> d, plate1thk |-> t, plate2thk |-> t, width |-> w,
       tensile_force |-> f, base_metal_ok |-> ok,
       lib_min_pitch |-> LapLibrary(d, t).lib_min_pitch,
       lib_min_end |-> LapLibrary(d, t).lib_min_end,
       lib_max_edge |-> LapLibrary(d, t).lib_max_edge,
       lib_shear |-> LapLibrary(d, t).lib_shear,
       lib_bearing |-> LapLibrary(d, t).lib_bearing] :
        bt \in LapBoltTypes, t \in ts, w \in LapWidths, f \in fs, ok \in BOOLEAN }

\* M10 bolts on 3 mm and 30 mm plates (8 d > t1 + t2; the thick pair has a
\* large grip), and M20 bolts on 3 mm plates, whose minimum end distance
\* (40) is above the maximum (36)
LapInputs == LapCases(10, {3, 30}, {50, 300, 400}) \cup LapCases(20, {3}, {50, 300})

\* line 542: select_bolt_dia_and_grade calls number_r_c_bolts(..., 0, 0)
InitLap ==
    /\ pc = "number_r_c_bolts"
    /\ call = [stack |-> <<"end">>, count |-> 0, hit |-> 0]
    /\ ext = BaseExt
    /\ \E inp \in LapInputs : self = select_bolt_dia_and_grade(inp)

NextLap ==
    \/ NumberBolts
    \/ AddColumn
    \/ LayoutDone
    \/ CapacityReduction1
    \/ CapacityReduction2
    \/ CapacityReduction2Tail
    \/ FinalFormatting
    \/ Return

SpecLap == InitLap /\ [][NextLap]_vars

\* the layout of number_r_c_bolts is complete (line 583 has run)
LayoutComplete == pc \notin {"number_r_c_bolts", "column_loop"}

\* the loop is at its test with one bolt per line left; further columns
\* leave temp_rows = ceil(rows / (cols + 1)) at 1, so the loop ends from
\* here only if the test fails now
OneBoltPerLine == pc = "column_loop" /\ self.temp_rows = 1

\* C28: the column-layout loop of number_r_c_bolts terminates for every
\* bolt count >= 2 and every positive plate width (with one bolt per line
\* left, the line fits in the width and the loop is left), and on exit
\* rows * cols >= number_bolts >= 2.
C28_ColumnLoopTerminates ==
    /\ LayoutComplete =>
          /\ self.number_bolts >= 2
          /\ self.rows * self.cols >= self.number_bolts
    /\ OneBoltPerLine => ~check_no_cols(self, self.temp_rows)

\* the end distance of final_formatting was accepted (lines 662-664,
\* 674-676)
DesignFinalized == self.finalized > 0

\* final_formatting has asked for one more bolt (lines 660, 672)
RetryIssued == self.retries > 0

\* C29: the retry chain final_formatting -> number_r_c_bolts(hit = 1) ->
\* check_capacity_reduction_1 -> check_capacity_reduction_2 ->
\* final_formatting terminates for every input: each retry raises
\* number_bolts by exactly one, and after finitely many retries the end
\* distance is within the maximum and the design is finalized.  The end
\* distance is never below min_end_dist_round, so the chain can end only
\* if that is within the maximum; it ends without RecursionError.
C29_RetryChainTerminates ==
    /\ (pc = "final_formatting" /\ RetryIssued)
          => self.number_bolts = self.bolts_at_retry + 1
    /\ RetryIssued => RLe(self.min_end_dist_round, self.max_end_dist_round)
    /\ RetryIssued => self.error # "RecursionError"

\* the shear capacities the claim allows: the unreduced capacity times at
\* most one long joint factor and at most one large grip factor
AllowedShearCapacities ==
    {self.unreduced, RMul(self.unreduced, self.bij), RMul(self.unreduced, self.blg),
     RMul(RMul(self.unreduced, self.bij), self.blg)}

\* C30: the long joint factor bij and the large grip factor blg are applied
\* to the bolt shear capacity at most once each per design, however many
\* times the bolt count is retried: the capacity final_formatting receives
\* is the unreduced capacity times at most one bij and at most one blg.
C30_ReductionsAppliedOnce ==
    /\ self.n_bij <= 1
    /\ self.n_blg <= 1
    /\ (pc = "final_formatting" /\ IsNumber(self.bolt_shear_capacity))
          => self.bolt_shear_capacity \in AllowedShearCapacities

=============================================================================
